---- MODULE Spec2Model ----
(***************************************************************************)
(* Model of the food-ordering backend: the offer routes                    *)
(* (src/routes/offerRoutes.js, schema src/models/Offer.js) and the sales   *)
(* report route (src/models/Product.js, lines 297-471).                    *)
(*                                                                         *)
(* Conventions                                                             *)
(*  - a JavaScript string is a tuple of one-character strings;             *)
(*  - a request-body value is a record [t, s]: t = "undef" (field absent), *)
(*    "str" (multipart / JSON string) or "num" (JSON number, s holding     *)
(*    String(n)), so that every body value has the same shape;             *)
(*  - a JavaScript number is a record [nan, v], v counting hundredths;     *)
(*  - an instant (Date) is a number of seconds since 1970-01-01T00:00:00,  *)
(*    and local time is UTC (no DST).                                      *)
(***************************************************************************)
EXTENDS Integers, Sequences, FiniteSets, TLC

----------------------------------------------------------------------------
(* JavaScript values *)

NaN == [nan |-> TRUE, v |-> 0]

Num(h) == [nan |-> FALSE, v |-> h]

Undef == [t |-> "undef", s |-> <<>>]

StrV(s) == [t |-> "str", s |-> s]

NumV(s) == [t |-> "num", s |-> s]

Digits == <<"0", "1", "2", "3", "4", "5", "6", "7", "8", "9">>

IsDigit(c) == \E i \in 1..10 : Digits[i] = c

DigitVal(c) == (CHOOSE i \in 1..10 : Digits[i] = c) - 1

IsSpace(c) == c = " "

LowerCase == <<"a", "b", "c", "d", "e", "f", "g", "h", "i", "j", "k", "l", "m",
               "n", "o", "p", "q", "r", "s", "t", "u", "v", "w", "x", "y", "z">>

UpperCase == <<"A", "B", "C", "D", "E", "F", "G", "H", "I", "J", "K", "L", "M",
               "N", "O", "P", "Q", "R", "S", "T", "U", "V", "W", "X", "Y", "Z">>

UpperChar(c) ==
    IF \E i \in 1..Len(LowerCase) : LowerCase[i] = c
    THEN UpperCase[CHOOSE i \in 1..Len(LowerCase) : LowerCase[i] = c]
    ELSE c

(* String.prototype.toUpperCase *)
ToUpperCase(s) == [i \in 1..Len(s) |-> UpperChar(s[i])]

RECURSIVE TrimStart(_)
TrimStart(s) ==
    IF s # <<>> /\ IsSpace(Head(s)) THEN TrimStart(Tail(s)) ELSE s

RECURSIVE TrimEnd(_)
TrimEnd(s) ==
    IF s # <<>> /\ IsSpace(s[Len(s)]) THEN TrimEnd(SubSeq(s, 1, Len(s) - 1)) ELSE s

(* String.prototype.trim *)
Trim(s) == TrimEnd(TrimStart(s))

(* the number of leading decimal digits of s *)
RECURSIVE DigitRun(_)
DigitRun(s) ==
    IF s # <<>> /\ IsDigit(Head(s)) THEN 1 + DigitRun(Tail(s)) ELSE 0

(* the value of a tuple of decimal digits *)
RECURSIVE DigitsVal(_)
DigitsVal(s) ==
    IF s = <<>> THEN 0 ELSE 10 * DigitsVal(SubSeq(s, 1, Len(s) - 1)) + DigitVal(s[Len(s)])

(* the first two fraction digits, as hundredths *)
FractionVal(f) ==
    IF Len(f) = 0 THEN 0
    ELSE IF Len(f) = 1 THEN 10 * DigitVal(f[1])
    ELSE 10 * DigitVal(f[1]) + DigitVal(f[2])

(* parseFloat on a string: leading white space, an optional sign, the longest
   prefix that is a decimal literal; NaN when that prefix holds no digit *)
ParseFloatStr(str) ==
    LET s0   == TrimStart(str)
        neg  == s0 # <<>> /\ Head(s0) = "-"
        s1   == IF s0 # <<>> /\ Head(s0) \in {"-", "+"} THEN Tail(s0) ELSE s0
        ni   == DigitRun(s1)
        rest == SubSeq(s1, ni + 1, Len(s1))
        dot  == rest # <<>> /\ Head(rest) = "."
        nf   == IF dot THEN DigitRun(Tail(rest)) ELSE 0
        mag  == 100 * DigitsVal(SubSeq(s1, 1, ni))
                  + FractionVal(SubSeq(rest, 2, nf + 1))
    IN  IF ni + nf = 0 THEN NaN
        ELSE Num(IF neg THEN 0 - mag ELSE mag)

(* parseFloat(x): x is first converted to a string; undefined gives "undefined" *)
ParseFloat(x) ==
    IF x.t = "undef" THEN NaN ELSE ParseFloatStr(x.s)

(* JavaScript truthiness, as used by !x and if (x) *)
Truthy(x) ==
    CASE x.t = "undef" -> FALSE
      [] x.t = "str"   -> x.s # <<>>
      [] x.t = "num"   -> ~ParseFloatStr(x.s).nan /\ ParseFloatStr(x.s).v # 0

----------------------------------------------------------------------------
(* JavaScript Date: instants in seconds, proleptic Gregorian calendar, UTC *)

DaySeconds == 24 * 60 * 60

InvalidDate == [nan |-> TRUE, v |-> 0]

Instant(t) == [nan |-> FALSE, v |-> t]

(* day number (days since 1970-01-01) of year y, month m in 1..12, day d *)
DaysFromCivil(y, m, d) ==
    LET yy  == IF m <= 2 THEN y - 1 ELSE y
        era == yy \div 400
        yoe == yy - era * 400
        mp  == IF m > 2 THEN m - 3 ELSE m + 9
        doy == (153 * mp + 2) \div 5 + d - 1
        doe == yoe * 365 + yoe \div 4 - yoe \div 100 + doy
    IN  era * 146097 + doe - 719468

(* the calendar date [y, m, d] of a day number, m in 1..12 *)
CivilFromDays(z) ==
    LET zz  == z + 719468
        era == zz \div 146097
        doe == zz - era * 146097
        yoe == (doe - doe \div 1460 + doe \div 36524 - doe \div 146096) \div 365
        doy == doe - (365 * yoe + yoe \div 4 - yoe \div 100)
        mp  == (5 * doy + 2) \div 153
        d   == doy - (153 * mp + 2) \div 5 + 1
        m   == IF mp < 10 THEN mp + 3 ELSE mp - 9
    IN  [y |-> yoe + era * 400 + (IF m <= 2 THEN 1 ELSE 0), m |-> m, d |-> d]

DayOf(t) == t \div DaySeconds

(* Date.prototype.getFullYear, getMonth (0-based), getDate, getDay (0 = Sunday) *)
GetFullYear(t) == CivilFromDays(DayOf(t)).y

GetMonth(t) == CivilFromDays(DayOf(t)).m - 1

GetDate(t) == CivilFromDays(DayOf(t)).d

GetDay(t) == (DayOf(t) + 4) % 7

(* MakeDay of ECMA-262: a month outside 0..11 carries into the year and a day
   outside the month carries into the neighbouring months *)
MakeDay(year, month, date) ==
    DaysFromCivil(year + (month \div 12), (month % 12) + 1, 1) + date - 1

(* new Date(year, month, date): local midnight of the normalised day *)
NewDate(year, month, date) == MakeDay(year, month, date) * DaySeconds

(* Date.prototype.setDate(n): the n-th day of t's month, the time of day kept *)
SetDate(t, n) == MakeDay(GetFullYear(t), GetMonth(t), n) * DaySeconds + (t % DaySeconds)

(* Date.prototype.setHours(0, 0, 0, 0) *)
SetHoursZero(t) == DayOf(t) * DaySeconds

DaysInMonth(y, m) == MakeDay(y, m, 1) - MakeDay(y, m - 1, 1)

(* new Date(string) for a date-only ISO string YYYY-MM-DD (UTC midnight);
   any other string of the modelled inputs is not a date *)
ParseDateStr(s) ==
    IF /\ Len(s) = 10
       /\ s[5] = "-" /\ s[8] = "-"
       /\ \A i \in {1, 2, 3, 4, 6, 7, 9, 10} : IsDigit(s[i])
    THEN LET y == DigitsVal(SubSeq(s, 1, 4))
             m == DigitsVal(SubSeq(s, 6, 7))
             d == DigitsVal(SubSeq(s, 9, 10))
         IN  IF m \in 1..12 /\ d >= 1 /\ d <= DaysInMonth(y, m)
             THEN Instant(DaysFromCivil(y, m, d) * DaySeconds)
             ELSE InvalidDate
    ELSE InvalidDate

(* new Date(x) for a request-body value: the modelled requests carry dates as
   strings or not at all; new Date(undefined) is an invalid date *)
ParseDate(x) == IF x.t = "str" THEN ParseDateStr(x.s) ELSE InvalidDate

----------------------------------------------------------------------------
(* Bounds *)

(* concurrent request handlers *)
NumProcs == 2

(* requests received in one behaviour *)
MaxRequests == 2

(* the largest _id a request names *)
MaxTarget == 2

Procs == 1..NumProcs

(* the clients of the notification channel *)
NumSockets == 2

Sockets == 1..NumSockets

(* notifications published *)
MaxNotes == 2

----------------------------------------------------------------------------
(* Request inputs *)

Title1 == <<"T", "1">>

Title2 == <<"T", "2">>

Descr1 == <<"D">>

CodeLower == <<"a", "1">>

CodeUpper == <<"A", "1">>

CodeOther == <<"b", "1">>

CodePadded == <<" ", "a", "1">>

CodeFresh == <<"c", "1">>

Date1 == <<"2", "0", "2", "4", "-", "0", "1", "-", "0", "1">>

Date2 == <<"2", "0", "2", "4", "-", "0", "1", "-", "0", "2">>

Date3 == <<"2", "0", "2", "4", "-", "0", "1", "-", "0", "3">>

DateBad == <<"s", "o", "o", "n">>

T1 == ParseDateStr(Date1).v

T2 == ParseDateStr(Date2).v

T3 == ParseDateStr(Date3).v

(* a request: the route parameter id (0 on create), the body fields and
   whether multer delivered a file (req.file) *)
NoReq ==
    [id |-> 0, title |-> Undef, description |-> Undef, discount |-> Undef,
     code |-> Undef, validFrom |-> Undef, validUntil |-> Undef,
     isActive |-> Undef, minOrderAmount |-> Undef, file |-> FALSE]

BaseCreate ==
    [NoReq EXCEPT !.title = StrV(Title1), !.description = StrV(Descr1),
                  !.discount = StrV(<<"5", "0">>), !.code = StrV(CodeLower),
                  !.validFrom = StrV(Date1), !.validUntil = StrV(Date2)]

DiscountInputs ==
    { StrV(<<"0">>), StrV(<<"1", "0", "0">>), StrV(<<"-", "1">>),
      StrV(<<"1", "0", "1">>), StrV(<<"1", "0", "0", ".", "5">>),
      StrV(<<"a", "b", "c">>), NumV(<<"0">>), NumV(<<"1", "0", "0">>) }

CreateRequests ==
    { [BaseCreate EXCEPT !.discount = d] : d \in DiscountInputs \cup {Undef} }
    \cup { [BaseCreate EXCEPT !.validFrom = f, !.validUntil = u] :
             f \in {StrV(Date1), StrV(Date2)},
             u \in {StrV(Date1), StrV(Date2), StrV(Date3), StrV(DateBad), Undef} }
    \cup { [BaseCreate EXCEPT !.code = c] :
             c \in {StrV(CodeLower), StrV(CodeUpper), StrV(CodeOther),
                    StrV(CodePadded), StrV(CodeFresh), StrV(<<" ">>), Undef} }
    \cup { [BaseCreate EXCEPT !.code = StrV(CodeOther), !.file = TRUE,
                              !.minOrderAmount = StrV(<<"5">>)],
           [BaseCreate EXCEPT !.code = StrV(CodeFresh),
                              !.minOrderAmount = StrV(<<"x">>)],
           [BaseCreate EXCEPT !.title = Undef],
           [BaseCreate EXCEPT !.description = StrV(<<>>)] }

(* the ids requests are aimed at *)
TargetIds == 1..MaxTarget

UpdateBodies ==
    { [NoReq EXCEPT !.code = StrV(c)] :
        c \in {CodeLower, CodeUpper, CodeOther, CodeFresh} }
    \cup { [NoReq EXCEPT !.code = StrV(c), !.title = StrV(Title2),
                         !.discount = StrV(<<"1", "0">>), !.validFrom = StrV(Date2)] :
             c \in {CodeLower, CodeOther} }
    \cup { [NoReq EXCEPT !.discount = d] : d \in DiscountInputs }
    \cup { [NoReq EXCEPT !.validFrom = StrV(d)] : d \in {Date3, DateBad} }
    \cup { [NoReq EXCEPT !.validUntil = StrV(Date1)],
           [NoReq EXCEPT !.isActive = StrV(<<"f", "a", "l", "s", "e">>)],
           [NoReq EXCEPT !.isActive = StrV(<<"t", "r", "u", "e">>)],
           [NoReq EXCEPT !.isActive = StrV(<<"o", "f", "f">>)],
           [NoReq EXCEPT !.file = TRUE],
           [NoReq EXCEPT !.title = StrV(Title2)],
           [NoReq EXCEPT !.minOrderAmount = StrV(<<"5">>)] }

UpdateRequests == { [b EXCEPT !.id = i] : b \in UpdateBodies, i \in TargetIds }

----------------------------------------------------------------------------
(* The Offer collection (src/models/Offer.js) *)

(* a stored offer / an in-memory document; image and cloudinary_id name a
   hosted asset by its number, 0 standing for the empty string *)
NoDoc ==
    [id |-> 0, title |-> <<>>, description |-> <<>>, discount |-> 0, code |-> <<>>,
     validFrom |-> 0, validUntil |-> 0, isActive |-> TRUE, minOrderAmount |-> 0,
     image |-> 0, cloudinary_id |-> 0]

(* SchemaErrors without the min / max validators of discount *)
SchemaErrorsNoRange(doc, bad) ==
    bad
    \cup (IF doc.title = <<>> THEN {"title"} ELSE {})
    \cup (IF doc.description = <<>> THEN {"description"} ELSE {})
    \cup (IF doc.code = <<>> THEN {"code"} ELSE {})

(* schema validation run by create() and save(): the paths that fail, given
   the paths whose assigned value could not be cast to the schema type *)
SchemaErrors(doc, bad) ==
    bad
    \cup (IF doc.title = <<>> THEN {"title"} ELSE {})
    \cup (IF doc.description = <<>> THEN {"description"} ELSE {})
    \cup (IF doc.code = <<>> THEN {"code"} ELSE {})
    \cup (IF doc.discount < 0 \/ doc.discount > 100 * 100 THEN {"discount"} ELSE {})

(* FindByCode without the _id exclusion *)
FindByCodeAnyId(store, code, except) ==
    { i \in DOMAIN store : store[i].code = code }

(* Offer.findOne({ code, _id: { $ne: except } }): the matching ids *)
FindByCode(store, code, except) ==
    { i \in DOMAIN store : store[i].code = code /\ i # except }

(* DuplicateKey of a collection without the unique index *)
DuplicateKeyNoIndex(store, id, code) == FALSE

(* the unique index on code: writing `code` to document `id` is refused
   (E11000) when another document holds it *)
DuplicateKey(store, id, code) ==
    \E i \in DOMAIN store : i # id /\ store[i].code = code

(* IsListed without the validUntil bound *)
IsListedNoUntil(o, now) ==
    o.isActive /\ o.validFrom <= now

(* the filter of GET /api/offers at instant now *)
IsListed(o, now) ==
    o.isActive /\ o.validFrom <= now /\ o.validUntil >= now

(* the ids of a set of documents, sorted by createdAt descending (ids are
   handed out in creation order) *)
RECURSIVE SortDesc(_)
SortDesc(ids) ==
    IF ids = {} THEN <<>>
    ELSE LET top == CHOOSE i \in ids : \A j \in ids : j <= i
         IN  <<top>> \o SortDesc(ids \ {top})

----------------------------------------------------------------------------
(* State *)

VARIABLES
    offers,     \* the Offer collection: _id -> document
    nextId,     \* the next _id
    assets,     \* the assets the media host holds
    nextAsset,  \* the next public_id the media host hands out
    proc,       \* the request handlers: where each stands and what it holds
    issued,     \* requests received so far
    listing,    \* the last response of GET /api/offers
    orders,     \* the Order collection: _id -> document
    report,     \* the last response of GET /api/sales/report
    receipt,    \* the order handed to generateOrderPDF and what it prints
    products,   \* the Product collection: _id -> document
    prod,       \* the handler of the product routes
    stats,      \* the handler of GET /api/sales/stats
    sock,       \* the sockets: connection, rooms joined, what the client got
    notes,      \* the notifications published so far
    gate,       \* the request at the head of a route's middleware chain
    reply       \* the last response of the routes that only read

offerVars == <<offers, nextId, assets, nextAsset, proc, issued, listing>>

productVars == <<products, prod>>

moreVars == <<stats, sock, notes, gate, reply>>

salesVars == <<orders, report, receipt, products, prod, stats, sock, notes, gate, reply>>

vars ==
    <<offers, nextId, assets, nextAsset, proc, issued, listing, orders, report, receipt,
      products, prod, stats, sock, notes, gate, reply>>

NoReport ==
    [status |-> 0, fields |-> {}, query |-> "", period |-> "", at |-> 0,
     startDate |-> 0, endDate |-> 0, orders |-> <<>>,
     totalSales |-> 0, totalOrders |-> 0, totalDeliveryCharges |-> 0,
     averageOrderValue |-> [nan |-> FALSE, v |-> 0],
     pickupOrders |-> 0, deliveryOrders |-> 0,
     statusCounts |-> [s \in {"Pending", "Preparing", "Out for Delivery", "Delivered"} |-> 0]]

(* GET /api/sales/stats: nothing asked yet *)
NoWindowStats == [orders |-> 0, sales |-> 0, counted |-> {}, summed |-> {}]

NoStats ==
    [pc |-> "idle", at |-> 0, status |-> 0,
     today |-> NoWindowStats, week |-> NoWindowStats, month |-> NoWindowStats]

(* the ids a client names in its room events: an order and a user share
   the id 1 *)
OrderIds == { <<"1">>, <<"2">> }

UserIds == { <<"1">> }

Topics == ({"order"} \X OrderIds) \cup ({"user"} \X UserIds)

(* a client that is not connected: no rooms, nothing received *)
NoSocket ==
    [connected |-> FALSE, rooms |-> {}, last |-> [t \in Topics |-> "none"],
     inbox |-> <<>>]

(* no request at the gate; creds tells what the request carries: nothing,
   the token of a customer, or the token of an admin *)
NoGate == [route |-> "", creds |-> "none", next |-> FALSE, status |-> 0]

NoReply == [route |-> "", status |-> 0, body |-> <<>>]

NoOrder == [items |-> <<>>, deliveryCharge |-> 0, totalAmount |-> 0]

NoReceipt ==
    [printed |-> FALSE, order |-> NoOrder, lines |-> <<>>,
     showSubtotal |-> FALSE, subtotal |-> 0, deliveryCharge |-> 0, totalAmount |-> 0]

NoProduct ==
    [id |-> 0, name |-> <<>>, description |-> <<>>, category |-> <<>>,
     price |-> 0, image |-> 0, cloudinary_id |-> 0, featured |-> FALSE]

(* a request to the product routes: the route parameter id (0 on create),
   the body fields and whether multer delivered a file (req.file) *)
NoProductReq ==
    [id |-> 0, name |-> Undef, description |-> Undef, category |-> Undef,
     price |-> Undef, featured |-> Undef, file |-> FALSE]

(* the external calls a handler has issued *)
NoCalls == [upload |-> 0, destroy |-> 0, find |-> 0, write |-> 0]

NoResp == [status |-> 0, msg |-> ""]

Resp(status, msg) == [status |-> status, msg |-> msg]

NoListing == [at |-> 0, ids |-> <<>>]

(* the instants at which the listing is requested *)
ListingInstants == {T1 - 1, T1, T2, T3, T3 + 1}

(* the product handler at rest: version tells which of the two product
   routers of the file serves the request, destroyed how the delete of the
   old image ended, old the reference id the stored product had *)
ProdIdle ==
    [pc |-> "idle", kind |-> "none", version |-> "none", req |-> NoProductReq,
     doc |-> NoProduct, bad |-> {}, calls |-> NoCalls, destroyed |-> "none",
     old |-> 0, resp |-> NoResp]

Idle ==
    [pc |-> "idle", kind |-> "none", req |-> NoReq, doc |-> NoDoc,
     mod |-> {}, bad |-> {}, resp |-> NoResp]

SeedOffers ==
    (1 :> [NoDoc EXCEPT !.id = 1, !.title = Title1, !.description = Descr1,
                        !.discount = 50 * 100, !.code = CodeUpper,
                        !.validFrom = T1, !.validUntil = T2])
    @@
    (2 :> [NoDoc EXCEPT !.id = 2, !.title = Title1, !.description = Descr1,
                        !.discount = 10 * 100, !.code = ToUpperCase(CodeOther),
                        !.validFrom = T1, !.validUntil = T3,
                        !.image = 1, !.cloudinary_id = 1])

Init ==
    /\ \E seeded \in BOOLEAN :
         /\ offers = IF seeded THEN SeedOffers ELSE <<>>
         /\ nextId = IF seeded THEN 3 ELSE 1
         /\ assets = IF seeded THEN {1} ELSE {}
         /\ nextAsset = IF seeded THEN 2 ELSE 1
    /\ proc = [p \in Procs |-> Idle]
    /\ issued = 0
    /\ listing = NoListing
    /\ orders = <<>>
    /\ report = NoReport
    /\ receipt = NoReceipt
    /\ products = <<>>
    /\ prod = ProdIdle
    /\ stats = NoStats
    /\ sock = [s \in Sockets |-> NoSocket]
    /\ notes = <<>>
    /\ gate = NoGate
    /\ reply = NoReply

(* no handler stands between its answer and the end of its turn: a handler
   runs from one await to the next without yielding, so the answer and the
   return of the handler are one turn of the event loop *)
Quiet == \A q \in Procs : proc[q].pc # "done"

(* a handler is free to take a request; the handlers being interchangeable,
   a request goes to the first idle one *)
Free(p) ==
    /\ Quiet
    /\ issued < MaxRequests
    /\ proc[p].pc = "idle"
    /\ \A q \in Procs : q < p => proc[q].pc # "idle"

(* the handler answers: res.status(status).json(...) *)
Answer(p, kind, req, status, msg) ==
    [Idle EXCEPT !.pc = "done", !.kind = kind, !.req = req, !.resp = Resp(status, msg)]

----------------------------------------------------------------------------
(* POST /api/offers *)

MissingRequired(r) ==
    \/ ~Truthy(r.title) \/ ~Truthy(r.description) \/ ~Truthy(r.discount)
    \/ ~Truthy(r.code) \/ ~Truthy(r.validFrom) \/ ~Truthy(r.validUntil)

BadDiscount(r) ==
    LET discountNum == ParseFloat(r.discount)
    IN  discountNum.nan \/ discountNum.v < 0 \/ discountNum.v > 100 * 100

BadDates(r) == ParseDate(r.validFrom).nan \/ ParseDate(r.validUntil).nan

BadWindow(r) == ParseDate(r.validUntil).v <= ParseDate(r.validFrom).v

(* the document handed to Offer.create *)
NewOffer(r, image) ==
    [NoDoc EXCEPT !.title = Trim(r.title.s),
                  !.description = Trim(r.description.s),
                  !.discount = ParseFloat(r.discount).v,
                  !.code = Trim(ToUpperCase(r.code.s)),
                  !.validFrom = ParseDate(r.validFrom).v,
                  !.validUntil = ParseDate(r.validUntil).v,
                  !.minOrderAmount =
                      IF Truthy(r.minOrderAmount) /\ r.minOrderAmount.s # <<>>
                      THEN ParseFloat(r.minOrderAmount).v ELSE 0,
                  !.image = image, !.cloudinary_id = image]

(* the paths of the new document whose value cannot be cast: a
   minOrderAmount that parseFloat turns into NaN *)
NewOfferBad(r) ==
    IF /\ Truthy(r.minOrderAmount) /\ r.minOrderAmount.s # <<>>
       /\ ParseFloat(r.minOrderAmount).nan
    THEN {"minOrderAmount"} ELSE {}

(* the handler up to the answer of Offer.findOne (lines 57-88) *)
CreateStart(p, r) ==
    /\ Free(p)
    /\ r \in CreateRequests
    /\ issued' = issued + 1
    /\ proc' = [proc EXCEPT ![p] =
         IF MissingRequired(r)
         THEN Answer(p, "create", r, 400, "Please provide all required fields")
         ELSE IF BadDiscount(r)
         THEN Answer(p, "create", r, 400, "Discount must be a number between 0 and 100")
         ELSE IF BadDates(r)
         THEN Answer(p, "create", r, 400, "Invalid date format")
         ELSE IF BadWindow(r)
         THEN Answer(p, "create", r, 400, "Valid until date must be after valid from date")
         ELSE IF FindByCode(offers, ToUpperCase(r.code.s), 0) # {}
         THEN Answer(p, "create", r, 400, "Offer code already exists")
         ELSE [Idle EXCEPT !.pc = IF r.file THEN "upload" ELSE "insert",
                           !.kind = "create", !.req = r, !.doc = NewOffer(r, 0)]]
    /\ UNCHANGED <<offers, nextId, assets, nextAsset, listing>>
    /\ UNCHANGED salesVars

(* cloudinary.uploader.upload answers (lines 93-112) *)
CreateUpload(p) ==
    /\ Quiet
    /\ proc[p].kind = "create" /\ proc[p].pc = "upload"
    /\ \/ /\ assets' = assets \cup {nextAsset}
          /\ nextAsset' = nextAsset + 1
          /\ proc' = [proc EXCEPT ![p].pc = "insert",
                                  ![p].doc = NewOffer(proc[p].req, nextAsset)]
       \/ /\ proc' = [proc EXCEPT ![p] =
                Answer(p, "create", proc[p].req, 500, "Failed to upload image")]
          /\ UNCHANGED <<assets, nextAsset>>
    /\ UNCHANGED <<offers, nextId, issued, listing>>
    /\ UNCHANGED salesVars

(* Offer.create answers (lines 114-137) *)
CreateInsert(p) ==
    /\ Quiet
    /\ proc[p].kind = "create" /\ proc[p].pc = "insert"
    /\ LET r   == proc[p].req
           doc == [proc[p].doc EXCEPT !.id = nextId]
       IN  IF SchemaErrors(doc, NewOfferBad(r)) # {}
           THEN /\ proc' = [proc EXCEPT ![p] = Answer(p, "create", r, 400, "ValidationError")]
                /\ UNCHANGED <<offers, nextId>>
           ELSE IF DuplicateKey(offers, nextId, doc.code)
           THEN /\ proc' = [proc EXCEPT ![p] =
                      Answer(p, "create", r, 400, "Offer code already exists")]
                /\ UNCHANGED <<offers, nextId>>
           ELSE /\ offers' = (nextId :> doc) @@ offers
                /\ nextId' = nextId + 1
                /\ proc' = [proc EXCEPT ![p] = Answer(p, "create", r, 201, "created")]
    /\ UNCHANGED <<assets, nextAsset, issued, listing>>
    /\ UNCHANGED salesVars

----------------------------------------------------------------------------
(* PUT /api/offers/:id *)

(* the in-memory document of a handler: its fields, the paths modified since it
   was loaded and the paths whose assigned value failed the schema's cast *)
Held(doc, mod, bad) == [doc |-> doc, mod |-> mod, bad |-> bad]

(* offer[path] = value: the path counts as modified when the value changes *)
Set(h, path, value) ==
    IF h.doc[path] = value THEN h
    ELSE [h EXCEPT !.doc = [h.doc EXCEPT ![path] = value], !.mod = h.mod \cup {path}]

(* assigning a number or a date: NaN and Invalid Date fail the cast *)
SetNumber(h, path, n) ==
    IF n.nan THEN [h EXCEPT !.bad = h.bad \cup {path}] ELSE Set(h, path, n.v)

(* the schema's cast to Boolean of a body value *)
SetBoolean(h, path, x) ==
    LET yes == { <<"t", "r", "u", "e">>, <<"1">>, <<"y", "e", "s">> }
        no  == { <<"f", "a", "l", "s", "e">>, <<"0">>, <<"n", "o">> }
    IN  IF x.s \in yes THEN Set(h, path, TRUE)
        ELSE IF x.s \in no THEN Set(h, path, FALSE)
        ELSE [h EXCEPT !.bad = h.bad \cup {path}]

(* lines 152-154 *)
PatchFirst(h, r) ==
    LET h1 == IF Truthy(r.title) THEN Set(h, "title", r.title.s) ELSE h
        h2 == IF Truthy(r.description) THEN Set(h1, "description", r.description.s) ELSE h1
    IN  IF r.discount.t # "undef" THEN SetNumber(h2, "discount", ParseFloat(r.discount)) ELSE h2

(* lines 163-166 *)
PatchRest(h, r) ==
    LET h1 == IF Truthy(r.validFrom)
              THEN SetNumber(h, "validFrom", ParseDate(r.validFrom)) ELSE h
        h2 == IF Truthy(r.validUntil)
              THEN SetNumber(h1, "validUntil", ParseDate(r.validUntil)) ELSE h1
        h3 == IF r.isActive.t # "undef" THEN SetBoolean(h2, "isActive", r.isActive) ELSE h2
    IN  IF r.minOrderAmount.t # "undef"
        THEN SetNumber(h3, "minOrderAmount", ParseFloat(r.minOrderAmount)) ELSE h3

(* where the handler waits after line 166 *)
AfterPatch(h, r) ==
    IF r.file THEN (IF h.doc.cloudinary_id # 0 THEN "destroy" ELSE "upload") ELSE "save"

Waiting(kind, r, h, pc) ==
    [Idle EXCEPT !.pc = pc, !.kind = kind, !.req = r, !.doc = h.doc,
                 !.mod = h.mod, !.bad = h.bad]

(* the handler up to the answer of Offer.findById (lines 145-155) *)
UpdateStart(p, r) ==
    /\ Free(p)
    /\ r \in UpdateRequests
    /\ issued' = issued + 1
    /\ proc' = [proc EXCEPT ![p] =
         IF r.id \notin DOMAIN offers
         THEN Answer(p, "update", r, 404, "Offer not found")
         ELSE LET h == PatchFirst(Held(offers[r.id], {}, {}), r)
              IN  IF Truthy(r.code)
                  THEN Waiting("update", r, h, "checkCode")
                  ELSE Waiting("update", r, PatchRest(h, r), AfterPatch(PatchRest(h, r), r))]
    /\ UNCHANGED <<offers, nextId, assets, nextAsset, listing>>
    /\ UNCHANGED salesVars

(* Offer.findOne answers (lines 157-166) *)
UpdateCheckCode(p) ==
    /\ Quiet
    /\ proc[p].kind = "update" /\ proc[p].pc = "checkCode"
    /\ LET r == proc[p].req
           h == Held(proc[p].doc, proc[p].mod, proc[p].bad)
           g == PatchRest(Set(h, "code", ToUpperCase(r.code.s)), r)
       IN  proc' = [proc EXCEPT ![p] =
             IF FindByCode(offers, ToUpperCase(r.code.s), h.doc.id) # {}
             THEN Answer(p, "update", r, 400, "Offer code already exists")
             ELSE Waiting("update", r, g, AfterPatch(g, r))]
    /\ UNCHANGED <<offers, nextId, assets, nextAsset, issued, listing>>
    /\ UNCHANGED salesVars

(* cloudinary.uploader.destroy answers or throws (lines 170-176) *)
UpdateDestroy(p) ==
    /\ Quiet
    /\ proc[p].kind = "update" /\ proc[p].pc = "destroy"
    /\ \/ assets' = assets \ {proc[p].doc.cloudinary_id}
       \/ assets' = assets
    /\ proc' = [proc EXCEPT ![p].pc = "upload"]
    /\ UNCHANGED <<offers, nextId, nextAsset, issued, listing>>
    /\ UNCHANGED salesVars

(* cloudinary.uploader.upload answers or throws (lines 178-196) *)
UpdateUpload(p) ==
    /\ Quiet
    /\ proc[p].kind = "update" /\ proc[p].pc = "upload"
    /\ \/ /\ assets' = assets \cup {nextAsset}
          /\ nextAsset' = nextAsset + 1
          /\ LET h == Held(proc[p].doc, proc[p].mod, proc[p].bad)
                 g == Set(Set(h, "image", nextAsset), "cloudinary_id", nextAsset)
             IN  proc' = [proc EXCEPT ![p] = Waiting("update", proc[p].req, g, "save")]
       \/ /\ proc' = [proc EXCEPT ![p] =
                Answer(p, "update", proc[p].req, 500, "Failed to upload image")]
          /\ UNCHANGED <<assets, nextAsset>>
    /\ UNCHANGED <<offers, nextId, issued, listing>>
    /\ UNCHANGED salesVars

(* a save() that writes the whole document the handler holds *)
MergeWhole(stored, doc, mod) == doc

(* what save() writes: the modified paths of the document *)
Merge(stored, doc, mod) ==
    [f \in DOMAIN stored |-> IF f \in mod THEN doc[f] ELSE stored[f]]

(* offer.save() answers (lines 198-202) *)
UpdateSave(p) ==
    /\ Quiet
    /\ proc[p].kind = "update" /\ proc[p].pc = "save"
    /\ LET r   == proc[p].req
           doc == proc[p].doc
       IN  IF SchemaErrors(doc, proc[p].bad) # {}
           THEN /\ proc' = [proc EXCEPT ![p] = Answer(p, "update", r, 500, "ValidationError")]
                /\ UNCHANGED offers
           ELSE IF doc.id \notin DOMAIN offers
           THEN /\ proc' = [proc EXCEPT ![p] =
                      Answer(p, "update", r, 500, "DocumentNotFoundError")]
                /\ UNCHANGED offers
           ELSE IF "code" \in proc[p].mod /\ DuplicateKey(offers, doc.id, doc.code)
           THEN /\ proc' = [proc EXCEPT ![p] =
                      Answer(p, "update", r, 500, "E11000 duplicate key error")]
                /\ UNCHANGED offers
           ELSE /\ offers' = [offers EXCEPT ![doc.id] = Merge(offers[doc.id], doc, proc[p].mod)]
                /\ proc' = [proc EXCEPT ![p] = Answer(p, "update", r, 200, "updated")]
    /\ UNCHANGED <<nextId, assets, nextAsset, issued, listing>>
    /\ UNCHANGED salesVars

----------------------------------------------------------------------------
(* DELETE /api/offers/:id *)

(* the handler up to the answer of Offer.findById (lines 210-213) *)
DeleteStart(p, id) ==
    /\ Free(p)
    /\ issued' = issued + 1
    /\ proc' = [proc EXCEPT ![p] =
         IF id \notin DOMAIN offers
         THEN Answer(p, "delete", [NoReq EXCEPT !.id = id], 404, "Offer not found")
         ELSE Waiting("delete", [NoReq EXCEPT !.id = id], Held(offers[id], {}, {}), "remove")]
    /\ UNCHANGED <<offers, nextId, assets, nextAsset, listing>>
    /\ UNCHANGED salesVars

(* offer.deleteOne() answers (lines 215-216) *)
DeleteRemove(p) ==
    /\ Quiet
    /\ proc[p].kind = "delete" /\ proc[p].pc = "remove"
    /\ offers' = [i \in DOMAIN offers \ {proc[p].doc.id} |-> offers[i]]
    /\ proc' = [proc EXCEPT ![p] = Answer(p, "delete", proc[p].req, 200, "Offer deleted")]
    /\ UNCHANGED <<nextId, assets, nextAsset, issued, listing>>
    /\ UNCHANGED salesVars

----------------------------------------------------------------------------
(* GET /api/offers at instant now (lines 39-51) *)
GetActiveOffers(p, now) ==
    /\ Free(p)
    /\ issued' = issued + 1
    /\ listing' = [at |-> now,
                   ids |-> SortDesc({i \in DOMAIN offers : IsListed(offers[i], now)})]
    /\ proc' = [proc EXCEPT ![p] = Answer(p, "list", NoReq, 200, "offers")]
    /\ UNCHANGED <<offers, nextId, assets, nextAsset>>
    /\ UNCHANGED salesVars

(* the handler returns after its answer *)
Finish(p) ==
    /\ proc[p].pc = "done"
    /\ proc' = [proc EXCEPT ![p] = Idle]
    /\ listing' = NoListing
    /\ UNCHANGED <<offers, nextId, assets, nextAsset, issued>>
    /\ UNCHANGED salesVars

Next ==
    \/ \E p \in Procs, r \in CreateRequests : CreateStart(p, r)
    \/ \E p \in Procs : CreateUpload(p)
    \/ \E p \in Procs : CreateInsert(p)
    \/ \E p \in Procs, r \in UpdateRequests : UpdateStart(p, r)
    \/ \E p \in Procs : UpdateCheckCode(p)
    \/ \E p \in Procs : UpdateDestroy(p)
    \/ \E p \in Procs : UpdateUpload(p)
    \/ \E p \in Procs : UpdateSave(p)
    \/ \E p \in Procs, id \in TargetIds : DeleteStart(p, id)
    \/ \E p \in Procs : DeleteRemove(p)
    \/ \E p \in Procs, now \in ListingInstants : GetActiveOffers(p, now)
    \/ \E p \in Procs : Finish(p)

Spec == Init /\ [][Next]_vars

----------------------------------------------------------------------------
(* GET /api/sales/report (src/models/Product.js, lines 306-374) *)

(* orders the collection may hold *)
MaxOrders == 2

(* the days the reports fall on: a Saturday, the Sunday that ends a year, a
   Wednesday and the 29th of February *)
RefDays ==
    { DaysFromCivil(2023, 12, 30), DaysFromCivil(2023, 12, 31),
      DaysFromCivil(2024, 1, 3), DaysFromCivil(2024, 2, 29) }

(* 00:00:00, 00:00:01 and 23:59:59 of those days *)
SalesInstants ==
    { d * DaySeconds + s : d \in RefDays, s \in {0, 1, DaySeconds - 1} }

(* the instants orders are created at: around the midnight that opens
   2023-12-31, around the one that opens 2024, and the end of February *)
OrderInstants ==
    { DaysFromCivil(2023, 12, 30) * DaySeconds + DaySeconds - 1,
      DaysFromCivil(2023, 12, 31) * DaySeconds + 1,
      DaysFromCivil(2023, 12, 31) * DaySeconds + DaySeconds - 1,
      DaysFromCivil(2024, 1, 1) * DaySeconds,
      DaysFromCivil(2024, 2, 29) * DaySeconds + DaySeconds - 1 }

(* an order field that may be absent from the document *)
Absent == [set |-> FALSE, v |-> 0]

Present(v) == [set |-> TRUE, v |-> v]

(* the orders that are stored, amounts in hundredths: a delivered delivery, a
   pickup without a delivery charge, an order on its way, a cancelled one and
   one whose payment is not completed *)
OrderInputs ==
    { [paymentStatus |-> "completed", totalAmount |-> 2850,
       deliveryCharge |-> Present(300), deliveryType |-> "delivery",
       orderStatus |-> "Delivered"],
      [paymentStatus |-> "completed", totalAmount |-> 1000,
       deliveryCharge |-> Absent, deliveryType |-> "pickup",
       orderStatus |-> "Pending"],
      [paymentStatus |-> "completed", totalAmount |-> 1001,
       deliveryCharge |-> Present(0), deliveryType |-> "pickup",
       orderStatus |-> "Out for Delivery"],
      [paymentStatus |-> "completed", totalAmount |-> 1251,
       deliveryCharge |-> Present(250), deliveryType |-> "delivery",
       orderStatus |-> "Cancelled"],
      [paymentStatus |-> "pending", totalAmount |-> 500,
       deliveryCharge |-> Present(300), deliveryType |-> "delivery",
       orderStatus |-> "Pending"] }

(* req.query.period; "undefined" stands for a request without it *)
PeriodInputs == {"undefined", "daily", "weekly", "monthly", "yearly"}

Window(startDate, endDate) == [startDate |-> startDate, endDate |-> endDate]

(* case 'daily' and default (lines 315-316, 331-332) *)
DailyWindow(now) ==
    Window(NewDate(GetFullYear(now), GetMonth(now), GetDate(now)),
           NewDate(GetFullYear(now), GetMonth(now), GetDate(now) + 1))

(* a week that starts on Monday *)
WeeklyWindowMonday(now) ==
    LET startDate == SetHoursZero(SetDate(now, GetDate(now) - GetDay(now) + 1))
    IN  Window(startDate, SetDate(startDate, GetDate(startDate) + 7))

(* case 'weekly' (lines 319-324) *)
WeeklyWindow(now) ==
    LET dayOfWeek == GetDay(now)
        startDate == SetHoursZero(SetDate(now, GetDate(now) - dayOfWeek))
    IN  Window(startDate, SetDate(startDate, GetDate(startDate) + 7))

(* a month whose end stays in the year of its start *)
MonthlyWindowSameYear(now) ==
    Window(NewDate(GetFullYear(now), GetMonth(now), 1),
           NewDate(GetFullYear(now), (GetMonth(now) + 1) % 12, 1))

(* case 'monthly' (lines 327-328) *)
MonthlyWindow(now) ==
    Window(NewDate(GetFullYear(now), GetMonth(now), 1),
           NewDate(GetFullYear(now), GetMonth(now) + 1, 1))

(* a switch whose default is the month *)
ReportWindowDefaultMonth(period, now) ==
    CASE period = "daily"   -> DailyWindow(now)
      [] period = "weekly"  -> WeeklyWindow(now)
      [] OTHER              -> MonthlyWindow(now)

(* switch (period) (lines 313-333) *)
ReportWindow(period, now) ==
    CASE period = "daily"   -> DailyWindow(now)
      [] period = "weekly"  -> WeeklyWindow(now)
      [] period = "monthly" -> MonthlyWindow(now)
      [] OTHER              -> DailyWindow(now)

(* the filter with the upper bound included *)
MatchesReportInclusive(o, w) ==
    o.createdAt >= w.startDate /\ o.createdAt <= w.endDate /\ o.paymentStatus = "completed"

(* the filter without the payment status *)
MatchesReportAnyPayment(o, w) ==
    o.createdAt >= w.startDate /\ o.createdAt < w.endDate

(* the filter of Order.find (lines 335-338) *)
MatchesReport(o, w) ==
    o.createdAt >= w.startDate /\ o.createdAt < w.endDate /\ o.paymentStatus = "completed"

(* the ids of documents sorted by createdAt descending; documents are stamped
   in the order they are stored, so a later _id is not older *)
SortByCreatedDesc(ids) == SortDesc(ids)

(* order.totalAmount (line 341) *)
AmountOf(o) == o.totalAmount

(* order.deliveryCharge || 0 (line 343) *)
ChargeOf(o) == IF o.deliveryCharge.set /\ o.deliveryCharge.v # 0 THEN o.deliveryCharge.v ELSE 0

(* orders.reduce((sum, order) => sum + order.totalAmount, 0) over the orders
   found, from the k-th on (line 341) *)
RECURSIVE TotalSales(_, _)
TotalSales(found, k) ==
    IF k > Len(found) THEN 0
    ELSE AmountOf(orders[found[k]]) + TotalSales(found, k + 1)

(* orders.reduce((sum, order) => sum + (order.deliveryCharge || 0), 0)
   (line 343) *)
RECURSIVE TotalDeliveryCharges(_, _)
TotalDeliveryCharges(found, k) ==
    IF k > Len(found) THEN 0
    ELSE ChargeOf(orders[found[k]]) + TotalDeliveryCharges(found, k + 1)

(* orders.filter(o => o[field] === value).length (lines 344-352) *)
CountWhere(found, field, value) ==
    Cardinality({ k \in 1..Len(found) : orders[found[k]][field] = value })

(* the statuses of the histogram (lines 348-353) *)
StatusNames == {"Pending", "Preparing", "Out for Delivery", "Delivered"}

(* a histogram that counts every order found under every status *)
StatusCountsAll(found) == [s \in StatusNames |-> Len(found)]

(* statusCounts (lines 348-353) *)
StatusCounts(found) == [s \in StatusNames |-> CountWhere(found, "orderStatus", s)]

(* parseFloat(x.toFixed(2)) of the quotient n / d of two amounts in hundredths,
   d > 0: the hundredths nearest to it.  A quotient halfway between two
   hundredths is not a binary floating-point number: the double that stands
   for it lies on one side or the other, and toFixed follows the double *)
ToFixed2(n, d) ==
    LET q == n \div d
        r == n % d
    IN  IF 2 * r < d THEN {q}
        ELSE IF 2 * r > d THEN {q + 1}
        ELSE {q, q + 1}

(* the average computed without looking at the count: 0 / 0 is NaN *)
AverageUnguarded(totalSales, totalOrders) ==
    IF totalOrders = 0 THEN {NaN} ELSE { Num(a) : a \in ToFixed2(totalSales, totalOrders) }

(* averageOrderValue (line 363) *)
AverageOrderValue(totalSales, totalOrders) ==
    IF totalOrders > 0
    THEN { Num(a) : a \in ToFixed2(totalSales, totalOrders) }
    ELSE { Num(0) }

(* an order is stored at instant t; the store stamps createdAt, and the
   stamps do not go back *)
StoreOrder(t, o) ==
    /\ report = NoReport
    /\ Cardinality(DOMAIN orders) < MaxOrders
    /\ \A i \in DOMAIN orders : orders[i].createdAt <= t
    /\ orders' = orders @@
         (Cardinality(DOMAIN orders) + 1 :>
            [createdAt |-> t, paymentStatus |-> o.paymentStatus,
             totalAmount |-> o.totalAmount, deliveryCharge |-> o.deliveryCharge,
             deliveryType |-> o.deliveryType, orderStatus |-> o.orderStatus])
    /\ UNCHANGED <<report, receipt>>
    /\ UNCHANGED moreVars
    /\ UNCHANGED productVars
    /\ UNCHANGED offerVars

(* an error answer that carries the orders of the window *)
ErrorReportPartial(now, list) ==
    [NoReport EXCEPT !.status = 500, !.at = now,
                     !.fields = {"message", "orders"}, !.orders = list]

(* the answer of the catch block (lines 370-373) *)
ErrorReport(now, list) ==
    [NoReport EXCEPT !.status = 500, !.at = now, !.fields = {"message"}]

(* the handler, at instant now; found tells whether Order.find resolved
   (lines 306-374) *)
GetReport(q, now, found) ==
    /\ report = NoReport
    /\ \E period \in {IF q = "undefined" THEN "daily" ELSE q} :
       \E w \in {ReportWindow(period, now)} :
       \E list \in {SortByCreatedDesc({ i \in DOMAIN orders : MatchesReport(orders[i], w) })} :
       \E totalSales \in {TotalSales(list, 1)} :
       \E totalOrders \in {Len(list)} :
         IF found
         THEN \E avg \in AverageOrderValue(totalSales, totalOrders) :
                report' =
                  [status |-> 200,
                   fields |-> {"period", "startDate", "endDate", "summary", "orders"},
                   query |-> q, period |-> period, at |-> now,
                   startDate |-> w.startDate, endDate |-> w.endDate,
                   orders |-> list,
                   totalSales |-> totalSales,
                   totalOrders |-> totalOrders,
                   totalDeliveryCharges |-> TotalDeliveryCharges(list, 1),
                   averageOrderValue |-> avg,
                   pickupOrders |-> CountWhere(list, "deliveryType", "pickup"),
                   deliveryOrders |-> CountWhere(list, "deliveryType", "delivery"),
                   statusCounts |-> StatusCounts(list)]
         ELSE report' = ErrorReport(now, list)
    /\ UNCHANGED <<orders, receipt>>
    /\ UNCHANGED moreVars
    /\ UNCHANGED productVars
    /\ UNCHANGED offerVars

(* the handler returns after its answer *)
FinishReport ==
    /\ report # NoReport
    /\ report' = NoReport
    /\ UNCHANGED <<orders, receipt>>
    /\ UNCHANGED moreVars
    /\ UNCHANGED productVars
    /\ UNCHANGED offerVars

NextSales ==
    \/ \E t \in OrderInstants, o \in OrderInputs : StoreOrder(t, o)
    \/ \E q \in PeriodInputs, now \in SalesInstants, found \in BOOLEAN :
         GetReport(q, now, found)
    \/ FinishReport

InitSales == Init /\ offers = <<>>

SpecSales == InitSales /\ [][NextSales]_vars

----------------------------------------------------------------------------
(* generateOrderPDF (src/models/Product.js, lines 41-153); amounts of money
   are thousandths here, so that toFixed(2) has digits to drop *)

(* line items of one order *)
MaxItems == 2

(* unit prices: 10.00, 5.50, 9.996 and 0.004 *)
PriceInputs == {10000, 5500, 9996, 4}

QuantityInputs == {1, 2}

(* delivery charges: none and 3.00 *)
ChargeInputs == {0, 3000}

ItemInputs == [price : PriceInputs, quantity : QuantityInputs]

ItemLists == UNION { [1..n -> ItemInputs] : n \in 1..MaxItems }

(* the sum of item.price * item.quantity over the items from the k-th on *)
RECURSIVE ItemsTotal(_, _)
ItemsTotal(items, k) ==
    IF k > Len(items) THEN 0
    ELSE items[k].price * items[k].quantity + ItemsTotal(items, k + 1)

(* the thousandths x.toFixed(2) prints, as hundredths *)
Printed(x) == ToFixed2(x, 10)

(* an order as it is stored: the total is the sum of price x quantity plus
   the delivery charge, rounded to 2 decimals *)
PlaceOrder(items, charge) ==
    /\ ~receipt.printed /\ receipt.order = NoOrder
    /\ \E total \in Printed(ItemsTotal(items, 1) + charge) :
         receipt' = [NoReceipt EXCEPT !.order =
                       [items |-> items, deliveryCharge |-> charge,
                        totalAmount |-> total * 10]]
    /\ UNCHANGED <<orders, report>>
    /\ UNCHANGED moreVars
    /\ UNCHANGED productVars
    /\ UNCHANGED offerVars

(* the rows of the table: item.price.toFixed(2) and
   (item.price * item.quantity).toFixed(2) (lines 126-133) *)
RECURSIVE Rows(_, _)
Rows(items, k) ==
    IF k > Len(items) THEN { <<>> }
    ELSE { <<[quantity |-> items[k].quantity, price |-> p, total |-> t]>> \o rest :
             p \in Printed(items[k].price),
             t \in Printed(items[k].price * items[k].quantity),
             rest \in Rows(items, k + 1) }

(* a subtotal that leaves the delivery charge in *)
SubtotalWithCharge(order) == order.totalAmount

(* order.totalAmount - order.deliveryCharge (line 138) *)
Subtotal(order) == order.totalAmount - order.deliveryCharge

(* generateOrderPDF(order): what the receipt prints (lines 126-141) *)
GenerateOrderPDF ==
    /\ ~receipt.printed /\ receipt.order # NoOrder
    /\ LET order == receipt.order
       IN  \E lines \in Rows(order.items, 1),
              sub \in Printed(Subtotal(order)),
              charge \in Printed(order.deliveryCharge),
              total \in Printed(order.totalAmount) :
             receipt' =
               [printed |-> TRUE, order |-> order, lines |-> lines,
                showSubtotal |-> order.deliveryCharge > 0,
                subtotal |-> IF order.deliveryCharge > 0 THEN sub ELSE 0,
                deliveryCharge |-> IF order.deliveryCharge > 0 THEN charge ELSE 0,
                totalAmount |-> total]
    /\ UNCHANGED <<orders, report>>
    /\ UNCHANGED moreVars
    /\ UNCHANGED productVars
    /\ UNCHANGED offerVars

NextReceipt ==
    \/ \E items \in ItemLists, charge \in ChargeInputs : PlaceOrder(items, charge)
    \/ GenerateOrderPDF

SpecReceipt == InitSales /\ [][NextReceipt]_vars

----------------------------------------------------------------------------
(* The product routes (src/models/Product.js, lines 479-655 and 711-982) *)

(* the file holds the product router twice: the first without and the later
   with the signed-upload fallback and the 400 for validation errors *)
Versions == {"first", "later"}

PName1 == <<"P", "1">>

PName2 == <<"P", "2">>

Category1 == <<"p", "i", "z", "z", "a">>

BaseProduct ==
    [NoProductReq EXCEPT !.name = StrV(PName1), !.description = StrV(Descr1),
                         !.category = StrV(Category1),
                         !.price = StrV(<<"9", ".", "5">>), !.file = TRUE]

ProductCreateRequests ==
    { BaseProduct,
      [BaseProduct EXCEPT !.file = FALSE],
      [BaseProduct EXCEPT !.name = Undef],
      [BaseProduct EXCEPT !.category = StrV(<<>>)],
      [BaseProduct EXCEPT !.price = StrV(<<"a", "b", "c">>)],
      [BaseProduct EXCEPT !.price = Undef, !.featured = StrV(<<"t", "r", "u", "e">>)],
      [BaseProduct EXCEPT !.featured = StrV(<<"t", "r", "u", "e">>)] }

ProductUpdateBodies ==
    { [NoProductReq EXCEPT !.file = TRUE],
      [NoProductReq EXCEPT !.file = TRUE, !.name = StrV(PName2)],
      [NoProductReq EXCEPT !.name = StrV(PName2)],
      [NoProductReq EXCEPT !.price = StrV(<<"1", "2">>)],
      [NoProductReq EXCEPT !.price = StrV(<<"a", "b", "c">>)],
      [NoProductReq EXCEPT !.featured = StrV(<<"t", "r", "u", "e">>)],
      [NoProductReq EXCEPT !.name = StrV(<<>>), !.featured = StrV(<<"n", "o">>)] }

ProductUpdateRequests ==
    { [b EXCEPT !.id = i] : b \in ProductUpdateBodies, i \in TargetIds }

(* how a cloudinary.uploader.upload ends: it resolves with a secure_url,
   resolves without one, rejects with a message that names the preset, or
   rejects with another message *)
UploadOutcomes == {"ok", "nourl", "preset", "error"}

(* the paths of a product the schema refuses (lines 3-32): a required string
   that is missing or empty, a price that is not a number *)
ProductErrors(doc, bad) ==
    { f \in {"name", "description", "category"} : doc[f] = <<>> } \cup bad

(* a string field of the body as it is stored; a missing one is no value *)
BodyString(x) == IF x.t = "str" THEN x.s ELSE <<>>

(* the document of Product.create (lines 838-846) *)
NewProduct(r, asset) ==
    [id |-> 0, name |-> BodyString(r.name), description |-> BodyString(r.description),
     category |-> BodyString(r.category), price |-> ParseFloat(r.price).v,
     image |-> asset, cloudinary_id |-> asset,
     featured |-> (r.featured = StrV(<<"t", "r", "u", "e">>))]

NewProductBad(r) == IF ParseFloat(r.price).nan THEN {"price"} ELSE {}

(* a product request may start *)
ProdFree == prod.pc = "idle" /\ issued < MaxRequests

(* the handler answers: res.status(status).json(...) *)
ProdAnswer(h, status, msg) == [h EXCEPT !.pc = "done", !.resp = Resp(status, msg)]

(* the handler issues an external call *)
Call(h, c) == [h EXCEPT !.calls[c] = @ + 1]

(* POST /api/products up to the first upload (lines 751-795; 519-533) *)
ProductCreateStart(r, v, configured) ==
    /\ ProdFree
    /\ r \in ProductCreateRequests
    /\ issued' = issued + 1
    /\ LET h == [ProdIdle EXCEPT !.kind = "create", !.version = v, !.req = r]
       IN  prod' =
             IF ~r.file THEN ProdAnswer(h, 400, "Image file is required")
             ELSE IF v = "later" /\ ~configured
             THEN ProdAnswer(h, 500, "Cloudinary configuration is missing")
             ELSE [Call(h, "upload") EXCEPT !.pc = "upload"]
    /\ UNCHANGED <<offers, nextId, assets, nextAsset, proc, listing>>
    /\ UNCHANGED <<orders, report, receipt, products>>
    /\ UNCHANGED moreVars

(* the handler with the asset of a resolved upload, about to call
   Product.create (lines 830-846) *)
ProductCreateUploaded(h) ==
    [Call(h, "write") EXCEPT !.pc = "insert", !.doc = NewProduct(h.req, nextAsset),
                             !.bad = NewProductBad(h.req)]

(* the first upload of POST /api/products ends (lines 786-832; 529-537) *)
ProductCreateUpload(o) ==
    /\ prod.kind = "create" /\ prod.pc = "upload"
    /\ o \in UploadOutcomes
    /\ CASE o = "ok" ->
              /\ assets' = assets \cup {nextAsset}
              /\ nextAsset' = nextAsset + 1
              /\ prod' = ProductCreateUploaded(prod)
         [] o = "nourl" ->
              /\ prod' = ProdAnswer(prod, 500, "Failed to upload image to Cloudinary")
              /\ UNCHANGED <<assets, nextAsset>>
         [] o = "preset" ->
              /\ prod' = IF prod.version = "later"
                         THEN [Call(prod, "upload") EXCEPT !.pc = "fallback"]
                         ELSE ProdAnswer(prod, 500, "preset not found")
              /\ UNCHANGED <<assets, nextAsset>>
         [] o = "error" ->
              /\ prod' = ProdAnswer(prod, 500, "Failed to upload image to Cloudinary")
              /\ UNCHANGED <<assets, nextAsset>>
    /\ UNCHANGED <<offers, nextId, proc, issued, listing>>
    /\ UNCHANGED <<orders, report, receipt, products>>
    /\ UNCHANGED moreVars

(* the signed upload of POST /api/products ends (lines 805-832) *)
ProductCreateFallback(o) ==
    /\ prod.kind = "create" /\ prod.pc = "fallback"
    /\ o \in UploadOutcomes
    /\ IF o = "ok"
       THEN /\ assets' = assets \cup {nextAsset}
            /\ nextAsset' = nextAsset + 1
            /\ prod' = ProductCreateUploaded(prod)
       ELSE /\ prod' = ProdAnswer(prod, 500, "Failed to upload image to Cloudinary")
            /\ UNCHANGED <<assets, nextAsset>>
    /\ UNCHANGED <<offers, nextId, proc, issued, listing>>
    /\ UNCHANGED <<orders, report, receipt, products>>
    /\ UNCHANGED moreVars

(* the status of a validation error of Product.create: the later router
   answers 400 (lines 859-863), the first 500 (lines 551-558) *)
ValidationStatus(v) == IF v = "later" THEN 400 ELSE 500

(* Product.create answers (lines 838-869; 539-559) *)
ProductCreateInsert ==
    /\ prod.kind = "create" /\ prod.pc = "insert"
    /\ IF ProductErrors(prod.doc, prod.bad) # {}
       THEN /\ prod' = ProdAnswer(prod, ValidationStatus(prod.version), "ValidationError")
            /\ UNCHANGED products
       ELSE LET id == IF DOMAIN products = {} THEN 1
                      ELSE (CHOOSE i \in DOMAIN products :
                              \A j \in DOMAIN products : j <= i) + 1
            IN  /\ products' = products @@ (id :> [prod.doc EXCEPT !.id = id])
                /\ prod' = ProdAnswer(prod, 201, "created")
    /\ UNCHANGED <<offers, nextId, assets, nextAsset, proc, issued, listing>>
    /\ UNCHANGED <<orders, report, receipt>>
    /\ UNCHANGED moreVars

(* the assignments before product.save() (lines 930-936; 603-609) *)
ProductAssign(h) ==
    LET r == h.req
    IN  [h EXCEPT !.doc.name = IF Truthy(r.name) THEN r.name.s ELSE @,
                  !.doc.description = IF Truthy(r.description) THEN r.description.s ELSE @,
                  !.doc.category = IF Truthy(r.category) THEN r.category.s ELSE @,
                  !.doc.price = IF Truthy(r.price) THEN ParseFloat(r.price).v ELSE @,
                  !.doc.featured = IF r.featured.t # "undef"
                                   THEN r.featured = StrV(<<"t", "r", "u", "e">>) ELSE @,
                  !.bad = IF Truthy(r.price) /\ ParseFloat(r.price).nan
                          THEN {"price"} ELSE {}]

(* the handler about to call product.save() *)
ProductToSave(h) == [Call(ProductAssign(h), "write") EXCEPT !.pc = "save"]

(* the upload issued before the delete of the old image *)
ProductAfterFindUploadFirst(h) == [Call(h, "upload") EXCEPT !.pc = "upload"]

(* after Product.findById found the product (lines 880-895; 570-585): with a
   file, the old image is deleted first if the product has one *)
ProductAfterFind(h) ==
    IF h.req.file
    THEN IF h.doc.cloudinary_id # 0
         THEN [Call(h, "destroy") EXCEPT !.pc = "destroy"]
         ELSE [Call(h, "upload") EXCEPT !.pc = "upload"]
    ELSE ProductToSave(h)

(* PUT /api/products/:id up to the answer of Product.findById
   (lines 873-882; 563-572) *)
ProductUpdateStart(r, v) ==
    /\ ProdFree
    /\ r \in ProductUpdateRequests
    /\ issued' = issued + 1
    /\ LET h == Call([ProdIdle EXCEPT !.kind = "update", !.version = v, !.req = r], "find")
       IN  prod' =
             IF r.id \notin DOMAIN products
             THEN ProdAnswer(h, 404, "Product not found")
             ELSE ProductAfterFind([h EXCEPT !.doc = products[r.id],
                                             !.old = products[r.id].cloudinary_id])
    /\ UNCHANGED <<offers, nextId, assets, nextAsset, proc, listing>>
    /\ UNCHANGED <<orders, report, receipt, products>>
    /\ UNCHANGED moreVars

(* a failed delete of the old image that ends the request *)
DestroyFailedSurfaced(h) == ProdAnswer(h, 500, "Failed to delete old image")

(* the catch around cloudinary.uploader.destroy (lines 889-891; 579-581):
   the failure is logged and the handler goes on to the upload *)
DestroyFailed(h) ==
    [Call(h, "upload") EXCEPT !.pc = "upload", !.destroyed = "failed"]

(* cloudinary.uploader.destroy answers or throws (lines 886-892; 576-582) *)
ProductUpdateDestroy(ok) ==
    /\ prod.kind = "update" /\ prod.pc = "destroy"
    /\ IF ok
       THEN /\ assets' = assets \ {prod.doc.cloudinary_id}
            /\ prod' = [Call(prod, "upload") EXCEPT !.pc = "upload", !.destroyed = "ok"]
       ELSE /\ assets' = assets
            /\ prod' = DestroyFailed(prod)
    /\ UNCHANGED <<offers, nextId, nextAsset, proc, issued, listing>>
    /\ UNCHANGED <<orders, report, receipt, products>>
    /\ UNCHANGED moreVars

(* the handler with the asset of a resolved upload (lines 921-936) *)
ProductUpdateUploaded(h) ==
    ProductToSave([h EXCEPT !.doc.image = nextAsset, !.doc.cloudinary_id = nextAsset])

(* the first upload of PUT /api/products/:id ends (lines 901-923; 588-596) *)
ProductUpdateUpload(o) ==
    /\ prod.kind = "update" /\ prod.pc = "upload"
    /\ o \in UploadOutcomes
    /\ CASE o = "ok" ->
              /\ assets' = assets \cup {nextAsset}
              /\ nextAsset' = nextAsset + 1
              /\ prod' = ProductUpdateUploaded(prod)
         [] o = "preset" ->
              /\ prod' = IF prod.version = "later"
                         THEN [Call(prod, "upload") EXCEPT !.pc = "fallback"]
                         ELSE ProdAnswer(prod, 500, "preset not found")
              /\ UNCHANGED <<assets, nextAsset>>
         [] OTHER ->
              /\ prod' = ProdAnswer(prod, 500, "Failed to upload image to Cloudinary")
              /\ UNCHANGED <<assets, nextAsset>>
    /\ UNCHANGED <<offers, nextId, proc, issued, listing>>
    /\ UNCHANGED <<orders, report, receipt, products>>
    /\ UNCHANGED moreVars

(* the signed upload of PUT /api/products/:id ends (lines 908-923) *)
ProductUpdateFallback(o) ==
    /\ prod.kind = "update" /\ prod.pc = "fallback"
    /\ o \in UploadOutcomes
    /\ IF o = "ok"
       THEN /\ assets' = assets \cup {nextAsset}
            /\ nextAsset' = nextAsset + 1
            /\ prod' = ProductUpdateUploaded(prod)
       ELSE /\ prod' = ProdAnswer(prod, 500, "Failed to upload image to Cloudinary")
            /\ UNCHANGED <<assets, nextAsset>>
    /\ UNCHANGED <<offers, nextId, proc, issued, listing>>
    /\ UNCHANGED <<orders, report, receipt, products>>
    /\ UNCHANGED moreVars

(* product.save() answers (lines 938-949; 611-622) *)
ProductUpdateSave ==
    /\ prod.kind = "update" /\ prod.pc = "save"
    /\ IF ProductErrors(prod.doc, prod.bad) # {}
       THEN /\ prod' = ProdAnswer(prod, 500, "ValidationError")
            /\ UNCHANGED products
       ELSE /\ products' = [products EXCEPT ![prod.doc.id] = prod.doc]
            /\ prod' = ProdAnswer(prod, 200, "updated")
    /\ UNCHANGED <<offers, nextId, assets, nextAsset, proc, issued, listing>>
    /\ UNCHANGED <<orders, report, receipt>>
    /\ UNCHANGED moreVars

(* the handler returns after its answer *)
ProductFinish ==
    /\ prod.pc = "done"
    /\ prod' = ProdIdle
    /\ UNCHANGED offerVars
    /\ UNCHANGED <<orders, report, receipt, products>>
    /\ UNCHANGED moreVars

(* the offer updates that carry nothing but a new image *)
ImageUpdateRequests == { r \in UpdateRequests : r = [NoReq EXCEPT !.file = TRUE, !.id = r.id] }

SeedProducts ==
    (1 :> [NoProduct EXCEPT !.id = 1, !.name = PName1, !.description = Descr1,
                            !.category = Category1, !.price = 950,
                            !.image = 2, !.cloudinary_id = 2])
    @@
    (2 :> [NoProduct EXCEPT !.id = 2, !.name = PName2, !.description = Descr1,
                            !.category = Category1, !.price = 1200, !.image = 3])

(* the catalog: the seeded offers and products, the media host holding the
   image of offer 2 and the image of product 1 *)
InitCatalog ==
    /\ offers = SeedOffers /\ nextId = 3
    /\ products \in {SeedProducts, <<>>}
    /\ assets = {1, 2} /\ nextAsset = 4
    /\ proc = [p \in Procs |-> Idle]
    /\ prod = ProdIdle
    /\ issued = 0
    /\ listing = NoListing
    /\ orders = <<>>
    /\ report = NoReport
    /\ receipt = NoReceipt
    /\ stats = NoStats
    /\ sock = [s \in Sockets |-> NoSocket]
    /\ notes = <<>>
    /\ gate = NoGate
    /\ reply = NoReply

(* the product routes and the offer updates that replace an image *)
NextCatalog ==
    \/ \E r \in ProductCreateRequests, v \in Versions, configured \in BOOLEAN :
         ProductCreateStart(r, v, configured)
    \/ \E o \in UploadOutcomes : ProductCreateUpload(o)
    \/ \E o \in UploadOutcomes : ProductCreateFallback(o)
    \/ ProductCreateInsert
    \/ \E r \in ProductUpdateRequests, v \in Versions : ProductUpdateStart(r, v)
    \/ \E ok \in BOOLEAN : ProductUpdateDestroy(ok)
    \/ \E o \in UploadOutcomes : ProductUpdateUpload(o)
    \/ \E o \in UploadOutcomes : ProductUpdateFallback(o)
    \/ ProductUpdateSave
    \/ ProductFinish
    \/ \E p \in Procs, r \in ImageUpdateRequests : UpdateStart(p, r)
    \/ \E p \in Procs : UpdateDestroy(p)
    \/ \E p \in Procs : UpdateUpload(p)
    \/ \E p \in Procs : UpdateSave(p)
    \/ \E p \in Procs : Finish(p)

SpecCatalog == InitCatalog /\ [][NextCatalog]_vars

----------------------------------------------------------------------------
(* Properties of the offer routes *)

(* handler p gives its answer in this step *)
Completes(p) == proc[p].pc # "done" /\ proc'[p].pc = "done"

(* the code a request asks for, as the collection would hold it *)
WantedCode(r) == Trim(ToUpperCase(r.code.s))

(* a body value that is a string with something in it *)
NonBlank(x) == x.t = "str" /\ Trim(x.s) # <<>>

(* the discount of a request is a number in [0, 100] *)
DiscountInRange(x) ==
    /\ x.t # "undef"
    /\ ~ParseFloat(x).nan
    /\ ParseFloat(x).v >= 0
    /\ ParseFloat(x).v <= 100 * 100

(* both dates of a request parse and validUntil is after validFrom *)
WindowValid(r) ==
    /\ ~ParseDate(r.validFrom).nan
    /\ ~ParseDate(r.validUntil).nan
    /\ ParseDate(r.validUntil).v > ParseDate(r.validFrom).v

(* the media host failed the upload of handler p in this step *)
UploadFails(p) == proc[p].pc = "upload" /\ proc'[p].pc = "done"

(* this step stores a new offer *)
StoresNew == DOMAIN offers' # DOMAIN offers /\ DOMAIN offers \subseteq DOMAIN offers'

CodesDistinct(store) ==
    \A i, j \in DOMAIN store :
        i # j => ToUpperCase(store[i].code) # ToUpperCase(store[j].code)

(* C1: no two stored offers have codes that are equal ignoring case, and an
   offer creation that succeeded left exactly one offer with its code *)
C1_CodesUnique ==
    /\ CodesDistinct(offers)
    /\ \A p \in Procs :
         (proc[p].pc = "done" /\ proc[p].kind = "create" /\ proc[p].resp.status = 201)
           => Cardinality({ i \in DOMAIN offers :
                  ToUpperCase(offers[i].code) = WantedCode(proc[p].req) }) = 1

(* C1 witness: from the empty collection one offer was created and a second
   creation whose code differs from the stored one only in case was refused
   with the conflict answer, one offer being stored *)
C1_Witness ==
    /\ DOMAIN offers = {1} /\ nextId = 2
    /\ offers[1].code = CodeUpper
    /\ \E p \in Procs :
         /\ proc[p].pc = "done" /\ proc[p].kind = "create"
         /\ proc[p].req.code = StrV(CodeLower)
         /\ proc[p].resp = Resp(400, "Offer code already exists")

(* C2: a creation whose other fields are valid and whose code is unused
   stores a new offer iff its discount is a number in [0, 100] *)
C2_DiscountIff ==
    [][\A p \in Procs :
         (/\ Completes(p) /\ proc'[p].kind = "create"
          /\ ~UploadFails(p)
          /\ NonBlank(proc'[p].req.title) /\ NonBlank(proc'[p].req.description)
          /\ NonBlank(proc'[p].req.code)
          /\ NewOfferBad(proc'[p].req) = {}
          /\ WindowValid(proc'[p].req)
          /\ ~\E i \in DOMAIN offers :
                 ToUpperCase(offers[i].code) = WantedCode(proc'[p].req))
         => (StoresNew <=> DiscountInRange(proc'[p].req.discount))]_vars

(* C3: a creation whose other fields are valid (its code unused) stores a new
   offer iff validUntil is strictly after validFrom *)
C3_WindowIff ==
    [][\A p \in Procs :
         (/\ Completes(p) /\ proc'[p].kind = "create"
          /\ ~UploadFails(p)
          /\ NonBlank(proc'[p].req.title) /\ NonBlank(proc'[p].req.description)
          /\ NonBlank(proc'[p].req.code)
          /\ NewOfferBad(proc'[p].req) = {}
          /\ DiscountInRange(proc'[p].req.discount)
          /\ ~\E i \in DOMAIN offers :
                 ToUpperCase(offers[i].code) = WantedCode(proc'[p].req))
         => (StoresNew <=> WindowValid(proc'[p].req))]_vars

(* C4: every stored offer has validUntil after validFrom *)
C4_StoredWindow ==
    \A i \in DOMAIN offers : offers[i].validUntil > offers[i].validFrom

DiscountsInRange(store) ==
    \A i \in DOMAIN store : store[i].discount >= 0 /\ store[i].discount <= 100 * 100

(* C5: every stored offer has a discount in [0, 100], and an update that
   supplies a discount outside [0, 100] or a non-numeric one changes no
   stored discount *)
C5_StoredDiscount ==
    [][/\ DiscountsInRange(offers)
       /\ DiscountsInRange(offers')
       /\ \A p \in Procs :
            (/\ Completes(p) /\ proc'[p].kind = "update"
             /\ proc'[p].req.discount.t # "undef"
             /\ ~DiscountInRange(proc'[p].req.discount))
            => /\ DOMAIN offers' = DOMAIN offers
               /\ \A i \in DOMAIN offers : offers'[i].discount = offers[i].discount]_vars

(* C5 witness: an update that supplied the discount 101 was answered with an
   error and the offer it named still holds its discount *)
C5_Witness ==
    \E p \in Procs :
        /\ proc[p].pc = "done" /\ proc[p].kind = "update"
        /\ proc[p].req.discount = StrV(<<"1", "0", "1">>)
        /\ proc[p].resp.status = 500
        /\ proc[p].req.id \in DOMAIN offers
        /\ offers[proc[p].req.id].discount = 50 * 100

(* the fields of an update other than the code are acceptable: the discount,
   when supplied, is a number in [0, 100] and the other values can be cast *)
UpdateOthersValid(r) ==
    /\ r.discount.t # "undef" => DiscountInRange(r.discount)
    /\ Truthy(r.validFrom) => ~ParseDate(r.validFrom).nan
    /\ Truthy(r.validUntil) => ~ParseDate(r.validUntil).nan
    /\ r.isActive.t = "undef"
    /\ r.minOrderAmount.t # "undef" => ~ParseFloat(r.minOrderAmount).nan

(* C6: the uniqueness check of an update leaves out the offer being updated:
   the offer's own code, in any letter case, passes the check and the update
   succeeds, while a code another offer holds is answered with 400 and the
   collection stays as it was *)
C6_UpdateCodeCheck ==
    [][\A p \in Procs :
         LET r  == proc[p].req
             id == proc[p].doc.id
             c  == ToUpperCase(r.code.s)
         IN  /\ (proc[p].kind = "update" /\ proc[p].pc = "checkCode" /\ proc'[p] # proc[p])
                => /\ (\E j \in DOMAIN offers : j # id /\ ToUpperCase(offers[j].code) = c)
                      => /\ proc'[p].pc = "done"
                         /\ proc'[p].resp = Resp(400, "Offer code already exists")
                         /\ offers' = offers
                   /\ (id \in DOMAIN offers /\ ToUpperCase(offers[id].code) = c)
                      => proc'[p].pc # "done"
             /\ (/\ proc[p].kind = "update" /\ Completes(p) /\ ~UploadFails(p)
                 /\ Truthy(r.code) /\ UpdateOthersValid(r)
                 /\ id \in DOMAIN offers /\ ToUpperCase(offers[id].code) = c)
                => /\ proc'[p].resp.status = 200
                   /\ id \in DOMAIN offers' /\ offers'[id].code = offers[id].code]_vars

(* C6 witness: an update naming a code another offer holds, and carrying a
   title, a discount and a date as well, was answered with 400 and the offer
   it named holds none of the supplied values *)
C6_Witness ==
    \E p \in Procs :
        /\ proc[p].pc = "done" /\ proc[p].kind = "update"
        /\ proc[p].resp = Resp(400, "Offer code already exists")
        /\ proc[p].req.title = StrV(Title2)
        /\ proc[p].req.id \in DOMAIN offers
        /\ offers[proc[p].req.id].title = Title1
        /\ offers[proc[p].req.id].code # ToUpperCase(proc[p].req.code.s)

(* C7: of the requests that race to give two offers one code at most one
   succeeds, and a request that writes a code another offer holds by then is
   answered with 400 'Offer code already exists' *)
C7_RaceAnswer ==
    [][/\ CodesDistinct(offers')
       /\ \A p \in Procs :
            (/\ Completes(p) /\ proc[p].pc \in {"insert", "save"}
             /\ SchemaErrors(proc[p].doc, proc[p].bad) = {}
             /\ "code" \in proc[p].mod \/ proc[p].kind = "create"
             /\ \E j \in DOMAIN offers :
                    j # proc[p].doc.id /\ offers[j].code = proc[p].doc.code)
            => /\ proc'[p].resp = Resp(400, "Offer code already exists")
               /\ offers' = offers]_vars

(* C8: the listing holds exactly the stored offers that are active and whose
   window contains the instant of the request *)
C8_ActiveListing ==
    listing # NoListing =>
        /\ { listing.ids[k] : k \in 1..Len(listing.ids) }
             = { i \in DOMAIN offers :
                   /\ offers[i].isActive = TRUE
                   /\ offers[i].validFrom <= listing.at
                   /\ listing.at <= offers[i].validUntil }
        /\ \A k, l \in 1..Len(listing.ids) : k # l => listing.ids[k] # listing.ids[l]
        /\ \A i \in DOMAIN offers :
             (offers[i].validUntil < listing.at \/ offers[i].validFrom > listing.at)
               => \A k \in 1..Len(listing.ids) : listing.ids[k] # i

(* C8 witness: a listing that holds one offer and leaves out an active offer
   whose validUntil has passed *)
C8_Witness ==
    /\ listing # NoListing
    /\ Len(listing.ids) = 1
    /\ \E i \in DOMAIN offers :
         /\ offers[i].isActive
         /\ offers[i].validUntil < listing.at
         /\ offers[i].validFrom <= listing.at

----------------------------------------------------------------------------
(* Properties of the sales report *)

ReportedOrders == { report.orders[k] : k \in 1..Len(report.orders) }

(* midnight that opens the day of instant t *)
Midnight(t) == t - (t % DaySeconds)

(* C9: the daily report covers [midnight of the day of the request, midnight
   of the next day): it holds exactly the completed orders created in it, the
   one created at startDate included and the one created at endDate left out *)
C9_DailyWindow ==
    (report # NoReport /\ report.period = "daily") =>
        /\ report.startDate = Midnight(report.at)
        /\ report.endDate = Midnight(report.at) + DaySeconds
        /\ \A i \in DOMAIN orders :
             i \in ReportedOrders <=>
                /\ orders[i].paymentStatus = "completed"
                /\ Midnight(report.at) <= orders[i].createdAt
                /\ orders[i].createdAt < Midnight(report.at) + DaySeconds
        /\ ReportedOrders \subseteq DOMAIN orders

(* C9 witness: a daily report that leaves out a completed order created at
   23:59:59 of the day before and holds one created at 00:00:01 of the day *)
C9_Witness ==
    /\ report # NoReport /\ report.period = "daily"
    /\ \E i, j \in DOMAIN orders :
         /\ orders[i].paymentStatus = "completed"
         /\ orders[i].createdAt = report.startDate - 1
         /\ i \notin ReportedOrders
         /\ orders[j].createdAt = report.startDate + 1
         /\ j \in ReportedOrders

(* C10: the weekly report starts at 00:00:00 of the last Sunday on or before
   the day of the request and ends exactly 7 days later *)
C10_WeeklyWindow ==
    (report # NoReport /\ report.period = "weekly") =>
        /\ report.startDate % DaySeconds = 0
        /\ (report.startDate \div DaySeconds + 4) % 7 = 0
        /\ report.startDate <= report.at
        /\ report.at - report.startDate < 7 * DaySeconds
        /\ report.endDate = report.startDate + 7 * DaySeconds

(* C10 witness: a weekly report asked on Wednesday 2024-01-03 that starts on
   Sunday 2023-12-31, a day of the month and the year before *)
C10_Witness ==
    /\ report # NoReport /\ report.period = "weekly"
    /\ DayOf(report.at) = DaysFromCivil(2024, 1, 3)
    /\ (DayOf(report.at) + 4) % 7 = 3
    /\ report.startDate = DaysFromCivil(2023, 12, 31) * DaySeconds

(* midnight that opens the first day of the month of instant t *)
MonthStart(t) ==
    LET c == CivilFromDays(DayOf(t))
    IN  DaysFromCivil(c.y, c.m, 1) * DaySeconds

(* midnight that opens the first day of the month after the month of instant
   t, January of the next year after a December *)
NextMonthStart(t) ==
    LET c == CivilFromDays(DayOf(t))
    IN  IF c.m = 12
        THEN DaysFromCivil(c.y + 1, 1, 1) * DaySeconds
        ELSE DaysFromCivil(c.y, c.m + 1, 1) * DaySeconds

(* C11: the monthly report starts at 00:00:00 of the first day of the month
   of the request and ends at 00:00:00 of the first day of the following
   month, which is January of the next year when the request is made in
   December *)
C11_MonthlyWindow ==
    (report.status = 200 /\ report.period = "monthly") =>
        /\ report.startDate = MonthStart(report.at)
        /\ report.endDate = NextMonthStart(report.at)
        /\ report.startDate <= report.at /\ report.at < report.endDate
        /\ CivilFromDays(DayOf(report.startDate)).d = 1
        /\ CivilFromDays(DayOf(report.endDate)).d = 1
        /\ report.endDate - report.startDate \in { 28 * DaySeconds, 29 * DaySeconds,
                                                    30 * DaySeconds, 31 * DaySeconds }

(* C11 witness: a monthly report asked in December 2023 that ends at
   2024-01-01 00:00:00 and leaves out a completed order created at that
   instant *)
C11_Witness ==
    /\ report.status = 200 /\ report.period = "monthly"
    /\ CivilFromDays(DayOf(report.at)).m = 12
    /\ report.endDate = DaysFromCivil(2024, 1, 1) * DaySeconds
    /\ \E i \in DOMAIN orders :
         /\ orders[i].paymentStatus = "completed"
         /\ orders[i].createdAt = report.endDate
         /\ i \notin ReportedOrders

(* the orders a report is computed over: payment completed and created in
   [startDate, endDate) *)
InWindow ==
    { i \in DOMAIN orders :
        /\ orders[i].paymentStatus = "completed"
        /\ report.startDate <= orders[i].createdAt
        /\ orders[i].createdAt < report.endDate }

(* the sum of f over the set S *)
RECURSIVE SumOver(_, _)
SumOver(f, S) ==
    IF S = {} THEN 0
    ELSE LET x == CHOOSE y \in S : TRUE
         IN  f[x] + SumOver(f, S \ {x})

(* C12: a report is computed over exactly the completed orders created in
   [startDate, endDate): totalOrders is their number, totalSales the sum of
   their totalAmount and totalDeliveryCharges the sum of their deliveryCharge,
   a missing charge counting 0 *)
C12_ReportTotals ==
    report.status = 200 =>
        /\ ReportedOrders = InWindow
        /\ Len(report.orders) = Cardinality(InWindow)
        /\ report.totalOrders = Cardinality(InWindow)
        /\ report.totalSales =
             SumOver([i \in DOMAIN orders |-> orders[i].totalAmount], InWindow)
        /\ report.totalDeliveryCharges =
             SumOver([i \in DOMAIN orders |->
                        IF orders[i].deliveryCharge.set
                        THEN orders[i].deliveryCharge.v ELSE 0], InWindow)

(* C12 witness: a report over one completed order without a delivery charge,
   an order of the window whose payment is not completed left out *)
C12_Witness ==
    /\ report.status = 200
    /\ report.totalOrders = 1 /\ report.totalSales = 1000
    /\ report.totalDeliveryCharges = 0
    /\ \E i, j \in DOMAIN orders :
         /\ i \in ReportedOrders /\ ~orders[i].deliveryCharge.set
         /\ orders[j].paymentStatus # "completed"
         /\ report.startDate <= orders[j].createdAt
         /\ orders[j].createdAt < report.endDate
         /\ j \notin ReportedOrders

(* C13: averageOrderValue is 0 when the window holds no completed order and
   otherwise the hundredths nearest to totalSales / totalOrders; it is never
   the NaN of a division by a zero count *)
C13_Average ==
    report.status = 200 =>
        LET n == Cardinality(InWindow)
            total == SumOver([i \in DOMAIN orders |-> orders[i].totalAmount], InWindow)
            avg == report.averageOrderValue
            diff == avg.v * n - total
        IN  /\ ~avg.nan
            /\ n = 0 => avg.v = 0
            /\ n > 0 => (2 * diff <= n /\ 2 * diff >= 0 - n)

(* C13 witness: a report over two orders worth 38.51 together, whose average
   19.255 is not a number of hundredths and is rounded to one *)
C13_Witness ==
    /\ report.status = 200
    /\ report.totalOrders = 2 /\ report.totalSales = 3851
    /\ report.averageOrderValue.v \in {1925, 1926}

(* C14: statusCounts holds, for each of Pending, Preparing, Out for Delivery
   and Delivered, the number of reported orders with that status (0 when there
   is none), and pickupOrders and deliveryOrders the numbers of reported
   orders with deliveryType pickup and delivery *)
C14_Histogram ==
    report.status = 200 =>
        /\ DOMAIN report.statusCounts =
             {"Pending", "Preparing", "Out for Delivery", "Delivered"}
        /\ \A s \in DOMAIN report.statusCounts :
             report.statusCounts[s] =
               Cardinality({ i \in ReportedOrders : orders[i].orderStatus = s })
        /\ report.pickupOrders =
             Cardinality({ i \in ReportedOrders : orders[i].deliveryType = "pickup" })
        /\ report.deliveryOrders =
             Cardinality({ i \in ReportedOrders : orders[i].deliveryType = "delivery" })

(* C14 witness: a report over a pending pickup and a cancelled delivery:
   Pending counts 1, the other three statuses 0 *)
C14_Witness ==
    /\ report.status = 200
    /\ Len(report.orders) = 2
    /\ report.statusCounts["Pending"] = 1
    /\ report.statusCounts["Preparing"] = 0
    /\ report.statusCounts["Out for Delivery"] = 0
    /\ report.statusCounts["Delivered"] = 0
    /\ report.pickupOrders = 1 /\ report.deliveryOrders = 1
    /\ \E i \in ReportedOrders : orders[i].orderStatus = "Cancelled"

(* C15: a step of the report handler leaves the order store as it is, and
   the answer to a failed store access is one 500 that carries neither a
   summary nor a list of orders *)
C15_ReportFrame ==
    [][/\ report' # report => orders' = orders
       /\ report'.status = 500 =>
            /\ "summary" \notin report'.fields
            /\ "orders" \notin report'.fields
            /\ report'.orders = <<>>
            /\ report'.totalOrders = 0 /\ report'.totalSales = 0]_vars

(* C15 witness: the 500 answered while the window of the request holds a
   completed order *)
C15_Witness ==
    /\ report.status = 500
    /\ report.fields = {"message"}
    /\ \E i \in DOMAIN orders :
         /\ orders[i].paymentStatus = "completed"
         /\ DayOf(orders[i].createdAt) = DayOf(report.at)

----------------------------------------------------------------------------
(* Properties of the order receipt *)

(* the sum of the printed line totals from the k-th row on *)
RECURSIVE LinesTotal(_, _)
LinesTotal(lines, k) ==
    IF k > Len(lines) THEN 0 ELSE lines[k].total + LinesTotal(lines, k + 1)

(* the total of the order is the sum of price x quantity plus the delivery
   charge, rounded to hundredths *)
TotalRounded(order) ==
    LET raw == ItemsTotal(order.items, 1) + order.deliveryCharge
    IN  /\ order.totalAmount % 10 = 0
        /\ order.totalAmount - raw <= 5
        /\ raw - order.totalAmount <= 5

(* every unit price and the delivery charge are whole hundredths *)
WholeCents(order) ==
    /\ order.deliveryCharge % 10 = 0
    /\ \A k \in 1..Len(order.items) : order.items[k].price % 10 = 0

(* C16: the total of an order is the sum of price x quantity plus the
   delivery charge rounded to 2 decimals, and the Subtotal a receipt prints
   equals the sum of the line totals it prints *)
C16_ReceiptAdds ==
    /\ receipt.order # NoOrder => TotalRounded(receipt.order)
    /\ (receipt.printed /\ receipt.showSubtotal) =>
          receipt.subtotal = LinesTotal(receipt.lines, 1)

(* C16 as amended: the same, the Subtotal equalling the sum of the printed
   line totals when every unit price and the delivery charge are whole
   hundredths *)
C16_ReceiptAddsCents ==
    /\ receipt.order # NoOrder => TotalRounded(receipt.order)
    /\ (receipt.printed /\ receipt.showSubtotal /\ WholeCents(receipt.order)) =>
          /\ receipt.subtotal = LinesTotal(receipt.lines, 1)
          /\ receipt.totalAmount = receipt.subtotal + receipt.deliveryCharge

(* C16 witness: the receipt of 2 x 10.00 and 1 x 5.50 with a delivery charge
   of 3.00: total 28.50, subtotal 25.50, lines 20.00 and 5.50 *)
C16_Witness ==
    /\ receipt.printed /\ receipt.showSubtotal
    /\ receipt.order.items = << [price |-> 10000, quantity |-> 2],
                                [price |-> 5500, quantity |-> 1] >>
    /\ receipt.order.deliveryCharge = 3000
    /\ receipt.order.totalAmount = 28500
    /\ receipt.totalAmount = 2850
    /\ receipt.subtotal = 2550
    /\ receipt.lines[1].total = 2000 /\ receipt.lines[2].total = 550

----------------------------------------------------------------------------
(* Properties of the media host calls and of the error answers *)

(* C17: within one request the product handler issues each external call at
   most once: no second upload follows a failed one *)
C17_CallsOnce ==
    \A c \in DOMAIN prod.calls : prod.calls[c] <= 1

(* the upload of the product handler failed in this step *)
ProdUploadFails ==
    /\ prod.kind = "update" /\ prod.pc \in {"upload", "fallback"}
    /\ prod'.pc = "done"

(* C18: an update that carries a new image deletes the old asset before it
   uploads the new one, and a failed upload ends the request with 500, the
   stored record and the media host left as they are: the record keeps the
   url and the reference id of the asset the request deleted *)
C18_NoRollback ==
    [][/\ \A p \in Procs :
            /\ (/\ proc'[p].kind = "update" /\ proc'[p].pc = "upload"
                /\ proc[p].pc # "upload" /\ proc'[p].doc.cloudinary_id # 0)
               => (proc[p].pc = "destroy" /\ proc[p].doc.id = proc'[p].doc.id)
            /\ (proc[p].kind = "update" /\ UploadFails(p))
               => /\ proc'[p].resp.status = 500
                  /\ offers' = offers
                  /\ assets' = assets
       /\ (/\ prod'.kind = "update" /\ prod'.calls.upload > 0 /\ prod'.old # 0)
          => (prod'.calls.destroy = 1 /\ prod'.destroyed # "none")
       /\ (prod.pc = "destroy" /\ prod' # prod) => prod.calls.upload = 0
       /\ ProdUploadFails
          => /\ prod'.resp.status = 500
             /\ products' = products
             /\ assets' = assets
             /\ products[prod.doc.id].cloudinary_id = prod.old
             /\ prod.destroyed = "ok" => prod.old \notin assets']_vars

(* C18 witness: a product update whose delete succeeded and whose upload
   failed was answered 500, and the stored product names an asset the media
   host no longer holds *)
C18_Witness ==
    /\ prod.pc = "done" /\ prod.kind = "update"
    /\ prod.destroyed = "ok" /\ prod.resp.status = 500
    /\ prod.doc.id \in DOMAIN products
    /\ products[prod.doc.id].cloudinary_id = prod.old
    /\ products[prod.doc.id].image = prod.old
    /\ prod.old \notin assets

(* C19: a failed delete of the old image does not end the request: the
   handler goes on to the upload, and when the upload succeeds the record is
   saved with the new url and reference id and the answer is 200 *)
C19_DeleteSwallowed ==
    [][/\ \A p \in Procs :
            /\ (proc[p].kind = "update" /\ proc[p].pc = "destroy" /\ proc'[p] # proc[p])
               => proc'[p].pc = "upload"
            /\ (/\ proc[p].kind = "update" /\ proc[p].pc = "save" /\ proc[p].req.file
                /\ Completes(p) /\ UpdateOthersValid(proc[p].req)
                /\ ~Truthy(proc[p].req.code))
               => /\ proc'[p].resp.status = 200
                  /\ offers'[proc[p].doc.id].cloudinary_id = proc[p].doc.cloudinary_id
                  /\ offers'[proc[p].doc.id].image = proc[p].doc.image
                  /\ proc[p].doc.cloudinary_id \in assets
       /\ (prod.pc = "destroy" /\ prod' # prod)
          => (prod'.pc = "upload" /\ prod'.destroyed \in {"ok", "failed"})
       /\ (/\ prod.kind = "update" /\ prod.pc = "save" /\ prod.destroyed = "failed"
           /\ prod'.pc = "done" /\ ProductErrors(prod.doc, prod.bad) = {})
          => /\ prod'.resp.status = 200
             /\ products'[prod.doc.id].cloudinary_id = prod.doc.cloudinary_id
             /\ products'[prod.doc.id].image = prod.doc.image
             /\ prod.doc.cloudinary_id # prod.old
             /\ prod.doc.cloudinary_id \in assets]_vars

(* C19 witness: a product update whose delete failed was answered 200; the
   stored product names the new asset, and the media host still holds the
   old one *)
C19_Witness ==
    /\ prod.pc = "done" /\ prod.kind = "update"
    /\ prod.destroyed = "failed" /\ prod.resp.status = 200
    /\ products[prod.doc.id].cloudinary_id # prod.old
    /\ products[prod.doc.id].cloudinary_id \in assets
    /\ prod.old \in assets

(* a request to create an offer that lacks a field or carries a malformed
   or out-of-range one *)
CreateInvalid(r) ==
    \/ ~NonBlank(r.title) \/ ~NonBlank(r.description) \/ ~NonBlank(r.code)
    \/ ~DiscountInRange(r.discount)
    \/ ~WindowValid(r)
    \/ NewOfferBad(r) # {}

(* a request to update an offer that carries a malformed or out-of-range
   field *)
UpdateInvalid(r) ==
    \/ r.discount.t # "undef" /\ ~DiscountInRange(r.discount)
    \/ Truthy(r.validFrom) /\ ParseDate(r.validFrom).nan
    \/ Truthy(r.validUntil) /\ ParseDate(r.validUntil).nan
    \/ r.minOrderAmount.t # "undef" /\ ParseFloat(r.minOrderAmount).nan

(* a request to create a product that lacks the image or a required field or
   carries a price that is not a number *)
ProductInvalid(r) ==
    \/ ~r.file
    \/ ProductErrors(NewProduct(r, 0), NewProductBad(r)) # {}

RejectedStatus(status) == status >= 400 /\ status <= 499

(* C20: a request with a missing, malformed or out-of-range field that the
   media host did not fail is answered with a 400-class status and leaves the
   store as it was, on offer create, offer update and product create *)
C20_ValidationIs400 ==
    [][/\ \A p \in Procs :
            (/\ Completes(p) /\ ~UploadFails(p)
             /\ \/ proc'[p].kind = "create" /\ CreateInvalid(proc'[p].req)
                \/ proc'[p].kind = "update" /\ UpdateInvalid(proc'[p].req))
            => (RejectedStatus(proc'[p].resp.status) /\ offers' = offers)
       /\ (/\ prod.pc # "done" /\ prod'.pc = "done" /\ prod'.kind = "create"
           /\ \/ prod.pc = "insert"
              \/ prod.pc = "idle" /\ ~prod'.req.file
           /\ ProductInvalid(prod'.req))
          => (RejectedStatus(prod'.resp.status) /\ products' = products)]_vars

-----------------------------------------------------------------------------
(* the required fields of an offer creation *)
RequiredFields ==
    {"title", "description", "discount", "code", "validFrom", "validUntil"}

(* a body value the request does not carry: no such key, or an empty text *)
FieldAbsent(x) == x.t = "undef" \/ (x.t = "str" /\ x.s = <<>>)

(* the answer of the required-field check *)
RequiredRejection == Resp(400, "Please provide all required fields")

(* C21: an offer creation is answered with the required-field rejection,
   nothing stored and no media call made, iff one of title, description,
   discount, code, validFrom, validUntil is absent from the request; a
   present value such as the discount 0 is never treated as absent *)
C21_RequiredIff ==
    [][\A p \in Procs :
         (proc[p].pc = "idle" /\ proc'[p].kind = "create")
         => /\ (proc'[p].resp = RequiredRejection)
                <=> (\E f \in RequiredFields : FieldAbsent(proc'[p].req[f]))
            /\ (proc'[p].resp = RequiredRejection)
                => (offers' = offers /\ assets' = assets
                    /\ nextAsset' = nextAsset)]_vars

-----------------------------------------------------------------------------
(* whether an update request supplies a stored field: a body key, or the
   uploaded file for the image and its reference id *)
Supplied(r, f) ==
    IF f \in {"image", "cloudinary_id"} THEN r.file
    ELSE IF f = "id" THEN FALSE
    ELSE r[f].t # "undef"

(* C22: a successful offer update leaves every stored field the request does
   not supply (title, description, discount, code, validFrom, validUntil,
   isActive, minOrderAmount, image, image reference id) as it was, and
   changes no other offer *)
C22_UpdateFrame ==
    [][\A p \in Procs :
         (/\ proc[p].kind = "update" /\ proc[p].pc = "save"
          /\ proc'[p].pc = "done" /\ proc'[p].resp.status = 200)
         => LET id == proc[p].doc.id
                r  == proc[p].req
            IN  /\ DOMAIN offers' = DOMAIN offers
                /\ \A f \in DOMAIN NoDoc :
                      ~Supplied(r, f) => offers'[id][f] = offers[id][f]
                /\ \A i \in DOMAIN offers \ {id} : offers'[i] = offers[i]]_vars

(* C22 witness: an update that supplied only a title was answered 200 on an
   offer whose minOrderAmount another update had set: the title is the new
   one, the amount and the code are kept *)
C22_Witness ==
    \E p \in Procs :
        /\ proc[p].pc = "done" /\ proc[p].kind = "update"
        /\ proc[p].resp.status = 200
        /\ proc[p].req = [NoReq EXCEPT !.title = StrV(Title2), !.id = 1]
        /\ offers[1].title = Title2
        /\ offers[1].minOrderAmount = 5 * 100
        /\ offers[1].code = CodeUpper

-----------------------------------------------------------------------------
(* C26: a sales report whose period selector is absent or is none of daily,
   weekly, monthly uses the daily window [midnight of the current day,
   midnight of the next day), and for every selector the instant of the
   request lies in the window: startDate <= now < endDate *)
C26_DefaultDaily ==
    report.status = 200 =>
        /\ report.query \notin {"daily", "weekly", "monthly"} =>
              /\ report.startDate = Midnight(report.at)
              /\ report.endDate = Midnight(report.at) + DaySeconds
        /\ report.startDate <= report.at
        /\ report.at < report.endDate

(* C26 witness: a report asked with the selector 'yearly' at 23:59:59 of
   2023-12-31 that covers that day alone and leaves out a completed order
   created earlier in the month *)
C26_Witness ==
    /\ report.status = 200 /\ report.query = "yearly"
    /\ report.at = DaysFromCivil(2023, 12, 31) * DaySeconds + DaySeconds - 1
    /\ report.startDate = DaysFromCivil(2023, 12, 31) * DaySeconds
    /\ \E i \in DOMAIN orders :
         /\ orders[i].paymentStatus = "completed"
         /\ orders[i].createdAt = report.startDate - 1
         /\ i \notin ReportedOrders

-----------------------------------------------------------------------------
(* The notification channel: io.on('connection') *)

(* `order:${orderId}` *)
RoomOrder(id) == <<"o", "r", "d", "e", "r", ":">> \o id

(* a user room that carries the prefix of the order rooms *)
RoomUserAsOrder(id) == RoomOrder(id)

(* `user:${userId}` *)
RoomUser(id) == <<"u", "s", "e", "r", ":">> \o id

(* the room of a topic *)
RoomOf(t) == IF t[1] = "order" THEN RoomOrder(t[2]) ELSE RoomUser(t[2])

(* the rooms notifications are published to *)
Rooms == { RoomOrder(<<"1">>), RoomUser(<<"1">>) }

(* a server that replays to a client that connects what it has not got *)
ConnectedReplay(s) ==
    LET missed == { n \in 1..Len(notes) :
                      \A k \in 1..Len(sock[s].inbox) : sock[s].inbox[k] # n }
        RECURSIVE Replay(_, _)
        Replay(got, left) ==
            IF left = {} THEN got
            ELSE LET n == CHOOSE m \in left : \A o \in left : m <= o
                 IN  Replay(Append(got, n), left \ {n})
    IN  [NoSocket EXCEPT !.connected = TRUE, !.inbox = Replay(sock[s].inbox, missed)]

(* the socket of a connection: the handler logs and registers the listeners;
   the server is built without connection state recovery, so the socket is
   in no room and nothing is sent to it *)
Connected(s) == [NoSocket EXCEPT !.connected = TRUE, !.inbox = sock[s].inbox]

Connect(s) ==
    /\ ~sock[s].connected
    /\ sock' = [sock EXCEPT ![s] = Connected(s)]
    /\ UNCHANGED <<stats, notes, gate, reply>>
    /\ UNCHANGED <<orders, report, receipt>>
    /\ UNCHANGED productVars
    /\ UNCHANGED offerVars

(* socket.join(room) / socket.leave(room), and the event it answered *)
Joined(s, t, room) ==
    [sock[s] EXCEPT !.rooms = @ \cup {room}, !.last = [@ EXCEPT ![t] = "join"]]

Left(s, t, room) ==
    [sock[s] EXCEPT !.rooms = @ \ {room}, !.last = [@ EXCEPT ![t] = "leave"]]

SocketEvent(s, after) ==
    /\ sock[s].connected
    /\ sock' = [sock EXCEPT ![s] = after]
    /\ UNCHANGED <<stats, notes, gate, reply>>
    /\ UNCHANGED <<orders, report, receipt>>
    /\ UNCHANGED productVars
    /\ UNCHANGED offerVars

joinOrderRoom(s, orderId) ==
    SocketEvent(s, Joined(s, <<"order", orderId>>, RoomOrder(orderId)))

leaveOrderRoom(s, orderId) ==
    SocketEvent(s, Left(s, <<"order", orderId>>, RoomOrder(orderId)))

joinUserRoom(s, userId) ==
    SocketEvent(s, Joined(s, <<"user", userId>>, RoomUser(userId)))

leaveUserRoom(s, userId) ==
    SocketEvent(s, Left(s, <<"user", userId>>, RoomUser(userId)))

(* 'disconnect': the socket is gone, and with it its rooms *)
Disconnect(s) ==
    SocketEvent(s, [NoSocket EXCEPT !.inbox = sock[s].inbox])

(* a status change is emitted to a room: the sockets in the room at that
   moment are written to, without acknowledgement, so a packet may be lost *)
Publish(room) ==
    /\ Len(notes) < MaxNotes
    /\ LET audience == { s \in Sockets : sock[s].connected /\ room \in sock[s].rooms }
           n == Len(notes) + 1
       IN  /\ notes' = Append(notes, [room |-> room, audience |-> audience])
           /\ \E got \in SUBSET audience :
                 sock' = [s \in Sockets |->
                            IF s \in got
                            THEN [sock[s] EXCEPT !.inbox = Append(@, n)]
                            ELSE sock[s]]
    /\ UNCHANGED <<stats, gate, reply>>
    /\ UNCHANGED <<orders, report, receipt>>
    /\ UNCHANGED productVars
    /\ UNCHANGED offerVars

NextSocket ==
    \/ \E s \in Sockets : Connect(s)
    \/ \E s \in Sockets, id \in OrderIds : joinOrderRoom(s, id)
    \/ \E s \in Sockets, id \in OrderIds : leaveOrderRoom(s, id)
    \/ \E s \in Sockets, id \in UserIds : joinUserRoom(s, id)
    \/ \E s \in Sockets, id \in UserIds : leaveUserRoom(s, id)
    \/ \E s \in Sockets : Disconnect(s)
    \/ \E room \in Rooms : Publish(room)

SpecSocket == InitSales /\ [][NextSocket]_vars

(* C23: for a connected socket and every id X, the socket is in the order
   topic of X iff its latest join / leave event for order X is a join, and
   likewise for the user topics; the two scopes do not touch each other, so
   a join of order X alone leaves the socket out of user X *)
C23_RoomsFollowEvents ==
    \A s \in Sockets :
        sock[s].connected =>
            \A t \in Topics :
                (RoomOf(t) \in sock[s].rooms) <=> (sock[s].last[t] = "join")

(* C23 witness: a socket joined order 1 and user 1 and then left order 1:
   it is in user 1 alone *)
C23_Witness ==
    \E s \in Sockets :
        /\ sock[s].connected
        /\ sock[s].last[<<"order", <<"1">>>>] = "leave"
        /\ sock[s].last[<<"user", <<"1">>>>] = "join"
        /\ sock[s].rooms = {RoomUser(<<"1">>)}

(* C24: a notification reaches a client only in the step that publishes it,
   only if the client's socket is connected and in the room at that moment,
   and only once; a client that was disconnected or not in the room then
   does not get it when it connects or joins later *)
C24_AtMostOnceNoReplay ==
    [][\A s \in Sockets :
         \/ sock'[s].inbox = sock[s].inbox
         \/ /\ Len(notes') = Len(notes) + 1
            /\ sock[s].connected
            /\ notes'[Len(notes')].room \in sock[s].rooms
            /\ sock'[s].inbox = Append(sock[s].inbox, Len(notes'))
            /\ \A k \in 1..Len(sock[s].inbox) : sock[s].inbox[k] # Len(notes')]_vars

(* C24 witness: the first notification went to order 1 while one client was
   in that room and got it; the other client was not in the room then, is
   connected and in the room now, and has received nothing *)
C24_Witness ==
    \E s, u \in Sockets :
        /\ Len(notes) = 1
        /\ notes[1] = [room |-> RoomOrder(<<"1">>), audience |-> {s}]
        /\ sock[s].inbox = <<1>>
        /\ u # s /\ sock[u].connected
        /\ RoomOrder(<<"1">>) \in sock[u].rooms
        /\ sock[u].inbox = <<>>

-----------------------------------------------------------------------------
(* GET /api/sales/stats *)

(* the instants the statistics are asked at: the first second of Sunday
   2023-12-31 and of Wednesday 2024-01-03 *)
StatsInstants ==
    { DaysFromCivil(2023, 12, 31) * DaySeconds + 1,
      DaysFromCivil(2024, 1, 3) * DaySeconds + 1 }

(* the orders stored around such a request *)
StatsOrderInstants ==
    { DaysFromCivil(2023, 12, 30) * DaySeconds + DaySeconds - 1,
      DaysFromCivil(2023, 12, 31) * DaySeconds + 1,
      DaysFromCivil(2023, 12, 31) * DaySeconds + DaySeconds - 1 }

StatsOrderInputs ==
    { o \in OrderInputs : o.totalAmount \in {2850, 1000, 500} }

(* { createdAt: { $gte: start }, paymentStatus: 'completed' } *)
StatsMatch(start) ==
    { i \in DOMAIN orders :
        orders[i].createdAt >= start /\ orders[i].paymentStatus = "completed" }

(* $group: { _id: null, total: { $sum: '$totalAmount' } }; no group, and
   the total 0, when nothing matches *)
RECURSIVE StatsTotal(_)
StatsTotal(S) ==
    IF S = {} THEN 0
    ELSE LET i == CHOOSE j \in S : TRUE
         IN  AmountOf(orders[i]) + StatsTotal(S \ {i})

(* the three lower bounds (lines 384, 405-407, 429) *)
StatsWindowStart(win, now) ==
    CASE win = "today" -> DailyWindow(now).startDate
      [] win = "week"  -> WeeklyWindow(now).startDate
      [] win = "month" -> MonthlyWindow(now).startDate

(* the handler up to its first query (lines 380-385) *)
StatsStart(now) ==
    /\ stats.pc = "idle"
    /\ \A i \in DOMAIN orders : orders[i].createdAt <= now
    /\ stats' = [NoStats EXCEPT !.pc = "todayOrders", !.at = now]
    /\ UNCHANGED <<sock, notes, gate, reply>>
    /\ UNCHANGED <<orders, report, receipt>>
    /\ UNCHANGED productVars
    /\ UNCHANGED offerVars

(* Order.countDocuments answers *)
StatsCount(pc, next, win) ==
    /\ stats.pc = pc
    /\ \E S \in {StatsMatch(StatsWindowStart(win, stats.at))} :
         stats' = [stats EXCEPT !.pc = next,
                                ![win].orders = Cardinality(S),
                                ![win].counted = S]
    /\ UNCHANGED <<sock, notes, gate, reply>>
    /\ UNCHANGED <<orders, report, receipt>>
    /\ UNCHANGED productVars
    /\ UNCHANGED offerVars

(* Order.aggregate answers; after the last one the response is sent
   (lines 449-462) *)
StatsSum(pc, next, win) ==
    /\ stats.pc = pc
    /\ \E S \in {StatsMatch(StatsWindowStart(win, stats.at))} :
       \E total \in ToFixed2(StatsTotal(S), 1) :
         stats' = [stats EXCEPT !.pc = next,
                                !.status = IF next = "done" THEN 200 ELSE 0,
                                ![win].sales = total,
                                ![win].summed = S]
    /\ UNCHANGED <<sock, notes, gate, reply>>
    /\ UNCHANGED <<orders, report, receipt>>
    /\ UNCHANGED productVars
    /\ UNCHANGED offerVars

TodayOrders == StatsCount("todayOrders", "todaySales", "today")

TodaySales == StatsSum("todaySales", "weekOrders", "today")

WeekOrders == StatsCount("weekOrders", "weekSales", "week")

WeekSales == StatsSum("weekSales", "monthOrders", "week")

MonthOrders == StatsCount("monthOrders", "monthSales", "month")

MonthSales == StatsSum("monthSales", "done", "month")

(* a query rejects: the catch answers 500 with the message alone
   (lines 463-466) *)
StatsFail ==
    /\ stats.pc \notin {"idle", "done"}
    /\ stats' = [NoStats EXCEPT !.pc = "done", !.at = stats.at, !.status = 500]
    /\ UNCHANGED <<sock, notes, gate, reply>>
    /\ UNCHANGED <<orders, report, receipt>>
    /\ UNCHANGED productVars
    /\ UNCHANGED offerVars

(* the handler returns after its answer *)
StatsFinish ==
    /\ stats.pc = "done"
    /\ stats' = NoStats
    /\ UNCHANGED <<sock, notes, gate, reply>>
    /\ UNCHANGED <<orders, report, receipt>>
    /\ UNCHANGED productVars
    /\ UNCHANGED offerVars

(* the payment of a stored order completes *)
CompletePayment(i) ==
    /\ i \in DOMAIN orders
    /\ orders[i].paymentStatus = "pending"
    /\ orders' = [orders EXCEPT ![i].paymentStatus = "completed"]
    /\ UNCHANGED <<report, receipt>>
    /\ UNCHANGED moreVars
    /\ UNCHANGED productVars
    /\ UNCHANGED offerVars

(* the statistics handler, and the orders that are stored and paid while it
   waits for its queries: an order stored during a request is stamped at or
   after the instant of the request *)
NextStats ==
    \/ \E t \in StatsOrderInstants, o \in StatsOrderInputs :
         StoreOrder(t, o) /\ (stats.pc # "idle" => t >= stats.at)
    \/ \E i \in 1..MaxOrders : CompletePayment(i)
    \/ \E now \in StatsInstants : StatsStart(now)
    \/ TodayOrders
    \/ TodaySales
    \/ WeekOrders
    \/ WeekSales
    \/ MonthOrders
    \/ MonthSales
    \/ StatsFail
    \/ StatsFinish

SpecStats == InitSales /\ [][NextStats]_vars

(* C27: in one answer of GET /api/sales/stats the order count and the sales
   sum of each of today, week and month are taken over the same set of
   completed orders, also when orders are stored or paid while the request
   runs; and today.orders <= week.orders and today.orders <= month.orders *)
C27_StatsConsistent ==
    (stats.pc = "done" /\ stats.status = 200) =>
        /\ \A win \in {"today", "week", "month"} :
              stats[win].counted = stats[win].summed
        /\ stats.today.orders <= stats.week.orders
        /\ stats.today.orders <= stats.month.orders

-----------------------------------------------------------------------------
(* The routes and their middleware *)

Routes ==
    { "GET /api/offers/all", "GET /api/offers/:id", "GET /api/offers",
      "POST /api/offers", "PUT /api/offers/:id", "DELETE /api/offers/:id",
      "GET /api/products", "GET /api/products/:id", "POST /api/products",
      "PUT /api/products/:id", "DELETE /api/products/:id",
      "GET /api/sales/report", "GET /api/sales/stats" }

(* a route table in which the offer update has lost protect and admin *)
ChainOpenUpdate(route) ==
    CASE route \in {"POST /api/offers", "POST /api/products", "PUT /api/products/:id"}
           -> <<"protect", "admin", "upload">>
      [] route = "PUT /api/offers/:id" -> <<"upload">>
      [] route \in {"GET /api/offers/all", "DELETE /api/offers/:id",
                    "DELETE /api/products/:id", "GET /api/sales/report",
                    "GET /api/sales/stats"}
           -> <<"protect", "admin">>
      [] OTHER -> <<>>

(* the middleware each route is declared with *)
Chain(route) ==
    CASE route \in {"POST /api/offers", "PUT /api/offers/:id",
                    "POST /api/products", "PUT /api/products/:id"}
           -> <<"protect", "admin", "upload">>
      [] route \in {"GET /api/offers/all", "DELETE /api/offers/:id",
                    "DELETE /api/products/:id", "GET /api/sales/report",
                    "GET /api/sales/stats"}
           -> <<"protect", "admin">>
      [] OTHER -> <<>>

Creds == {"none", "user", "admin"}

(* one middleware: 0 when it calls next(), else the status it answers *)
Middleware(name, creds) ==
    CASE name = "protect" -> IF creds = "none" THEN 401 ELSE 0
      [] name = "admin"   -> IF creds = "admin" THEN 0 ELSE 403
      [] OTHER            -> 0

(* the chain from its k-th middleware on: the first answer ends it *)
RECURSIVE RunChain(_, _, _)
RunChain(chain, creds, k) ==
    IF k > Len(chain) THEN 0
    ELSE IF Middleware(chain[k], creds) # 0 THEN Middleware(chain[k], creds)
    ELSE RunChain(chain, creds, k + 1)

(* no handler is at work *)
AllIdle ==
    /\ \A p \in Procs : proc[p].pc = "idle"
    /\ prod.pc = "idle"
    /\ report = NoReport
    /\ stats.pc = "idle"
    /\ reply = NoReply

(* a handler has sent its response *)
Answered ==
    \/ \E p \in Procs : proc[p].pc = "done"
    \/ prod.pc = "done"
    \/ report # NoReport
    \/ stats.pc = "done"
    \/ reply # NoReply

(* a request reaches its route and runs through the middleware *)
Arrive(route, creds) ==
    /\ gate = NoGate /\ AllIdle
    /\ \E status \in {RunChain(Chain(route), creds, 1)} :
         gate' = [route |-> route, creds |-> creds,
                  next |-> (status = 0), status |-> status]
    /\ UNCHANGED <<stats, sock, notes, reply>>
    /\ UNCHANGED <<orders, report, receipt>>
    /\ UNCHANGED productVars
    /\ UNCHANGED offerVars

(* the response leaves: that of the middleware that refused, or that of the
   handler *)
Depart ==
    /\ gate # NoGate
    /\ ~gate.next \/ Answered
    /\ gate' = NoGate
    /\ UNCHANGED <<stats, sock, notes, reply>>
    /\ UNCHANGED <<orders, report, receipt>>
    /\ UNCHANGED productVars
    /\ UNCHANGED offerVars

(* the chain has handed the request to the handler of the route *)
Handle(route) == gate.next /\ gate.route = route /\ AllIdle

(* the routes that only read *)
Reads(r) ==
    /\ reply = NoReply
    /\ reply' = r
    /\ UNCHANGED <<stats, sock, notes, gate>>
    /\ UNCHANGED <<orders, report, receipt>>
    /\ UNCHANGED productVars
    /\ UNCHANGED offerVars

(* GET /api/offers/all (offerRoutes.js lines 12-19) *)
GetAllOffers(found) ==
    Reads(IF found
          THEN [route |-> "GET /api/offers/all", status |-> 200,
                body |-> SortDesc(DOMAIN offers)]
          ELSE [route |-> "GET /api/offers/all", status |-> 500, body |-> <<>>])

(* GET /api/offers/:id (offerRoutes.js lines 24-34) *)
GetOfferById(id, found) ==
    Reads(IF ~found
          THEN [route |-> "GET /api/offers/:id", status |-> 500, body |-> <<>>]
          ELSE IF id \notin DOMAIN offers
          THEN [route |-> "GET /api/offers/:id", status |-> 404, body |-> <<>>]
          ELSE [route |-> "GET /api/offers/:id", status |-> 200, body |-> <<id>>])

(* GET /api/products (Product.js lines 720-731; 488-499) *)
GetProducts(found) ==
    Reads(IF found
          THEN [route |-> "GET /api/products", status |-> 200,
                body |-> SortDesc(DOMAIN products)]
          ELSE [route |-> "GET /api/products", status |-> 500, body |-> <<>>])

(* GET /api/products/:id (Product.js lines 734-748; 502-516) *)
GetProductById(id, found) ==
    Reads(IF ~found
          THEN [route |-> "GET /api/products/:id", status |-> 500, body |-> <<>>]
          ELSE IF id \notin DOMAIN products
          THEN [route |-> "GET /api/products/:id", status |-> 404, body |-> <<>>]
          ELSE [route |-> "GET /api/products/:id", status |-> 200, body |-> <<id>>])

(* the handler returns after its answer *)
ReadsFinish ==
    /\ reply # NoReply
    /\ reply' = NoReply
    /\ UNCHANGED <<stats, sock, notes, gate>>
    /\ UNCHANGED <<orders, report, receipt>>
    /\ UNCHANGED productVars
    /\ UNCHANGED offerVars

(* DELETE /api/products/:id up to the answer of Product.findById
   (Product.js lines 953-967; 626-640) *)
ProductDeleteStart(id, v) ==
    /\ ProdFree
    /\ issued' = issued + 1
    /\ LET h == Call([ProdIdle EXCEPT !.kind = "delete", !.version = v,
                                      !.req = [NoProductReq EXCEPT !.id = id]], "find")
       IN  prod' =
             IF id \notin DOMAIN products
             THEN ProdAnswer(h, 404, "Product not found")
             ELSE IF products[id].cloudinary_id # 0
             THEN [Call(h, "destroy") EXCEPT !.pc = "destroy", !.doc = products[id],
                                              !.old = products[id].cloudinary_id]
             ELSE [Call(h, "write") EXCEPT !.pc = "remove", !.doc = products[id]]
    /\ UNCHANGED <<offers, nextId, assets, nextAsset, proc, listing>>
    /\ UNCHANGED <<orders, report, receipt, products>>
    /\ UNCHANGED moreVars

(* cloudinary.uploader.destroy answers or throws; the failure is logged
   (Product.js lines 962-968; 635-641) *)
ProductDeleteDestroy(ok) ==
    /\ prod.kind = "delete" /\ prod.pc = "destroy"
    /\ assets' = IF ok THEN assets \ {prod.doc.cloudinary_id} ELSE assets
    /\ prod' = [Call(prod, "write") EXCEPT !.pc = "remove",
                     !.destroyed = IF ok THEN "ok" ELSE "failed"]
    /\ UNCHANGED <<offers, nextId, nextAsset, proc, issued, listing>>
    /\ UNCHANGED <<orders, report, receipt, products>>
    /\ UNCHANGED moreVars

(* Product.findByIdAndDelete answers or throws (Product.js lines 970-979;
   643-652) *)
ProductDeleteRemove(ok) ==
    /\ prod.kind = "delete" /\ prod.pc = "remove"
    /\ IF ok
       THEN /\ products' = [i \in DOMAIN products \ {prod.doc.id} |-> products[i]]
            /\ prod' = ProdAnswer(prod, 200, "Product deleted successfully")
       ELSE /\ UNCHANGED products
            /\ prod' = ProdAnswer(prod, 500, "Failed to delete product")
    /\ UNCHANGED <<offers, nextId, assets, nextAsset, proc, issued, listing>>
    /\ UNCHANGED <<orders, report, receipt>>
    /\ UNCHANGED moreVars

(* the requests sent through the routes *)
GateCreateRequests ==
    { [BaseCreate EXCEPT !.code = StrV(CodeFresh)],
      [BaseCreate EXCEPT !.code = StrV(CodeOther), !.file = TRUE,
                         !.minOrderAmount = StrV(<<"5">>)] }

GateUpdateRequests ==
    ImageUpdateRequests \cup { [NoReq EXCEPT !.title = StrV(Title2), !.id = 1] }

GateProductRequests == { BaseProduct, [BaseProduct EXCEPT !.file = FALSE] }

GateProductUpdates ==
    { [NoProductReq EXCEPT !.file = TRUE, !.id = 1],
      [NoProductReq EXCEPT !.name = StrV(PName2), !.id = 2] }

GateInstant == DaysFromCivil(2024, 1, 3) * DaySeconds + 1

(* every route: the request runs through the middleware of the route, the
   handler starts when the chain hands the request on, and returns after
   its response has left *)
NextGate ==
    \/ \E route \in Routes, creds \in Creds : Arrive(route, creds)
    \/ Depart
    \/ Handle("GET /api/offers/all") /\ \E found \in BOOLEAN : GetAllOffers(found)
    \/ Handle("GET /api/offers/:id")
         /\ \E id \in TargetIds, found \in BOOLEAN : GetOfferById(id, found)
    \/ Handle("GET /api/offers") /\ \E p \in Procs : GetActiveOffers(p, T2)
    \/ Handle("POST /api/offers")
         /\ \E p \in Procs, r \in GateCreateRequests : CreateStart(p, r)
    \/ \E p \in Procs : CreateUpload(p)
    \/ \E p \in Procs : CreateInsert(p)
    \/ Handle("PUT /api/offers/:id")
         /\ \E p \in Procs, r \in GateUpdateRequests : UpdateStart(p, r)
    \/ \E p \in Procs : UpdateDestroy(p)
    \/ \E p \in Procs : UpdateUpload(p)
    \/ \E p \in Procs : UpdateSave(p)
    \/ Handle("DELETE /api/offers/:id")
         /\ \E p \in Procs, id \in TargetIds : DeleteStart(p, id)
    \/ \E p \in Procs : DeleteRemove(p)
    \/ gate = NoGate /\ \E p \in Procs : Finish(p)
    \/ Handle("GET /api/products") /\ \E found \in BOOLEAN : GetProducts(found)
    \/ Handle("GET /api/products/:id")
         /\ \E id \in TargetIds, found \in BOOLEAN : GetProductById(id, found)
    \/ gate = NoGate /\ ReadsFinish
    \/ Handle("POST /api/products")
         /\ \E r \in GateProductRequests, v \in Versions, configured \in BOOLEAN :
               ProductCreateStart(r, v, configured)
    \/ \E o \in UploadOutcomes : ProductCreateUpload(o)
    \/ \E o \in UploadOutcomes : ProductCreateFallback(o)
    \/ ProductCreateInsert
    \/ Handle("PUT /api/products/:id")
         /\ \E r \in GateProductUpdates, v \in Versions : ProductUpdateStart(r, v)
    \/ \E ok \in BOOLEAN : ProductUpdateDestroy(ok)
    \/ \E o \in UploadOutcomes : ProductUpdateUpload(o)
    \/ \E o \in UploadOutcomes : ProductUpdateFallback(o)
    \/ ProductUpdateSave
    \/ Handle("DELETE /api/products/:id")
         /\ \E id \in TargetIds, v \in Versions : ProductDeleteStart(id, v)
    \/ \E ok \in BOOLEAN : ProductDeleteDestroy(ok)
    \/ \E ok \in BOOLEAN : ProductDeleteRemove(ok)
    \/ gate = NoGate /\ ProductFinish
    \/ Handle("GET /api/sales/report")
         /\ \E found \in BOOLEAN : GetReport("daily", GateInstant, found)
    \/ gate = NoGate /\ FinishReport
    \/ Handle("GET /api/sales/stats") /\ StatsStart(GateInstant)
    \/ TodayOrders
    \/ TodaySales
    \/ WeekOrders
    \/ WeekSales
    \/ MonthOrders
    \/ MonthSales
    \/ StatsFail
    \/ gate = NoGate /\ StatsFinish

SpecGate == InitCatalog /\ [][NextGate]_vars

(* the routes the identity-and-admin-role check stands before, and the
   public reads *)
AdminRoutes ==
    { "POST /api/offers", "PUT /api/offers/:id", "DELETE /api/offers/:id",
      "POST /api/products", "PUT /api/products/:id", "DELETE /api/products/:id",
      "GET /api/offers/all", "GET /api/sales/report", "GET /api/sales/stats" }

PublicReads ==
    { "GET /api/products", "GET /api/products/:id", "GET /api/offers",
      "GET /api/offers/:id" }

(* the request at the gate passes the identity-and-admin-role check *)
Passes(g) == g.creds = "admin"

(* a step that changes the catalog or calls the media host *)
TouchesCatalog ==
    \/ offers' # offers
    \/ products' # products
    \/ assets' # assets
    \/ nextAsset' # nextAsset
    \/ prod'.calls.upload > prod.calls.upload
    \/ prod'.calls.destroy > prod.calls.destroy
    \/ \E p \in Procs : proc[p].pc \in {"upload", "destroy"} /\ proc'[p] # proc[p]

(* C25: a request that does not pass the identity-and-admin-role check
   never changes the catalog and never calls the media host; on the admin
   routes (create, update, delete of products and offers, GET
   /api/offers/all, both sales endpoints) a handler is at work only for a
   request that passed, and the public reads (product list, product by id,
   active offers, offer by id) are handed to their handler whatever the
   request carries *)
C25_AdminGate ==
    [][/\ TouchesCatalog => Passes(gate)
       /\ (~AllIdle' /\ gate'.route \in AdminRoutes) => Passes(gate')
       /\ (gate'.route \in AdminRoutes /\ ~Passes(gate')) => ~gate'.next
       /\ gate'.route \in PublicReads => gate'.next]_vars

(* C25 witness: after an admin has created a product, the delete of a
   product asked with a customer's token was refused with 403 and the
   catalog holds its three products *)
C25_Witness ==
    /\ gate.route = "DELETE /api/products/:id" /\ gate.creds = "user"
    /\ gate.status = 403 /\ ~gate.next
    /\ AllIdle
    /\ DOMAIN products = {1, 2, 3}

====
